---- MODULE Spec2Model ----
(***************************************************************************)
(* Model of the sparse+dense master index wrapper (masterIndex006.c):      *)
(* struct master_index6 routes every operation to a non-hook (dense) or a  *)
(* hook (sparse) sub-index and guards the hook sub-index of each zone with *)
(* the zone's hookMutex.                                                   *)
(*                                                                         *)
(* Two specifications share the variables:                                 *)
(*   Spec      the life cycle at safe points (one caller): make, compute   *)
(*             save bytes, start restoring, classification, free;          *)
(*   SpecConc  the zone threads and the dispatch thread running the        *)
(*             per-name operations step by step between lock points        *)
(*             (FairSpecConc adds the scheduler's fairness).               *)
(***************************************************************************)
EXTENDS Integers, Sequences, FiniteSets, TLC

(***************************************************************************)
(* Bounds of the model.                                                    *)
(***************************************************************************)
MaxZones == 2
ActiveOwners == 1
MaxChapter == 2
MaxSampleBytes == 1
MaxIndexBytes == 1
MaxRate == 2
MaxReaders == 2
MaxChaptersPerVolume == 2
MaxRecordsPerChapter == 2
MaxReport == 1
\* The callers' callbacks and error handlers, the launches of the one
\* metadata vio, and the physical block numbers 0 .. MaxPhysical.
MaxHandlers == 2
MaxLaunches == 2
MaxPhysical == 1
\* The calls of vdo_count_bios on one statistics block, and the sizes
\* 0 .. MaxBioSize of a bio.
MaxBios == 3
MaxBioSize == 1
\* The VIO pointers of the caller of kvdo_create_metadata_vio, and the
\* metadata vios it is given in all.
MaxVioPtrs == 2
MaxVios == 2

(***************************************************************************)
(* Result codes (uds.h / errors.h); SUB_ERROR stands for any error code a  *)
(* sub-index returns.                                                      *)
(***************************************************************************)
UDS_SUCCESS == "UDS_SUCCESS"
UDS_INVALID_ARGUMENT == "UDS_INVALID_ARGUMENT"
UDS_BAD_STATE == "UDS_BAD_STATE"
UDS_CORRUPT_COMPONENT == "UDS_CORRUPT_COMPONENT"
SUB_ERROR == "SUB_ERROR"
ENOMEM == "ENOMEM"

NoThread == -1
NoMutex == -1
NoName == <<-1, -1>>

\* The two sub-indices of struct master_index6.
miNonHook == "miNonHook"
miHook == "miHook"
SubIndexes == {miNonHook, miHook}

\* A chunk name, reduced to the bytes the index reads: its sampling bytes
\* and its master index bytes.
Names == (0..MaxSampleBytes) \X (0..MaxIndexBytes)
extract_sampling_bytes(name) == name[1]
extract_master_index_bytes(name) == name[2]

VARIABLES
  sparseSampleRate,  \* mi6->sparseSampleRate
  numZones,          \* mi6->numZones
  hookMutex,         \* mi6->masterZones[z].hookMutex: the thread holding it
  openChapter,       \* [sub][zone]: the open chapter of each sub-index zone
  updating,          \* [sub][zone]: the sub-index is half way through an
                     \* open chapter update of the zone
  pc,                \* [thread]: where each thread is in its current call
  loc,               \* [thread]: the locals and results of its current call
  record,            \* [thread]: the caller's struct master_index_record
  advances,          \* [zone]: how many open chapter advances have returned
  life,              \* the index's life cycle and the last safe-point call
  heap,              \* what makeMasterIndex006 allocated and what was freed
  out,               \* the callers' output arguments
  answer,            \* the last classification call and its answer
  io,                \* saved streams, sub-index contents, save/restore args
  vio,               \* a metadata vio, its completion and who launched it
  bio_stats,         \* a struct atomic_bio_stats and the bio counted last
  layer              \* the kernel layer's bios and kvios, and one caller of
                     \* kvdo_create_metadata_vio

vars == <<sparseSampleRate, numZones, hookMutex, openChapter, updating, pc,
          loc, record, advances, life, heap, out, answer, io, vio, bio_stats,
          layer>>

\* The block layer's state, which no operation of the master index touches.
vdoVars == <<vio, bio_stats, layer>>

lifeVars == <<life, heap, out, answer, io>>

cfgVars == <<sparseSampleRate, numZones>>
concVars == <<hookMutex, openChapter, updating, pc, loc, record, advances>>

AllZones == 0 .. (MaxZones - 1)
Zones == 0 .. (numZones - 1)
\* One thread owns each zone (thread z owns zone z); one more thread, the
\* dispatcher, assigns requests to zones.  The first ActiveOwners zone
\* threads have requests to work on; the other zone threads stay idle.
AllThreads == 0 .. MaxZones
Dispatcher == MaxZones
Owners == {t \in Zones : t < ActiveOwners}
Threads == Owners \cup {Dispatcher}

(***************************************************************************)
(* The sub-index interface (masterIndex005, behind struct master_index).   *)
(***************************************************************************)
\* The number of delta lists of a sub-index: the hook index is the smaller.
NumDeltaLists(sub) == IF sub = miHook THEN numZones ELSE 2 * numZones

\* getMasterIndexZone on a sub-index: the zone of the delta list the name's
\* master index bytes select.  A pure function of the name and of the
\* sub-index's immutable layout.
getMasterIndexZone(sub, name) ==
  ((extract_master_index_bytes(name) % NumDeltaLists(sub)) * numZones)
     \div NumDeltaLists(sub)

(***************************************************************************)
(* Classification and routing.                                             *)
(***************************************************************************)
\* isMasterIndexSample_006 with the comparison of line 80 inverted.
isMasterIndexSample_006_swapped(name) ==
  (extract_sampling_bytes(name) % sparseSampleRate) # 0

isMasterIndexSample_006(name) ==
  (extract_sampling_bytes(name) % sparseSampleRate) = 0

\* getSubIndex with the two branches of lines 99-101 exchanged.
getSubIndex_swapped(name) ==
  IF isMasterIndexSample_006(name) THEN miNonHook ELSE miHook

getSubIndex(name) ==
  IF isMasterIndexSample_006(name) THEN miHook ELSE miNonHook

getMasterIndexZone_006(name) == getMasterIndexZone(getSubIndex(name), name)

(***************************************************************************)
(* Thread-local state of a call.                                           *)
(***************************************************************************)
\* struct master_index_triage
NoTriage == [isSample |-> FALSE, inSampledChapter |-> FALSE, zone |-> 0]

\* The locals of a call and what the call did so far:
\*   op, name, zone, virtualChapter, mutex   the call and its locals
\*   triage, result                          what it returns
\*   locks     how many times the call locked a zone mutex
\*   lookups   how many sampled-name lookups it made in the hook index
\*   touched   the sub-indices it called into
\*   held      whether it held the zone mutex at each hook index call
\*   seen      the hook index open chapter its lookup read
\*   torn      whether its lookup found the hook index zone being changed
\*   returned  what its sub-index lookups returned, in order
\*   visited   the <<sub-index, zone>> whose open chapter it set, in order
NoCall ==
  [op |-> "none", name |-> NoName, zone |-> 0, virtualChapter |-> 0,
   mutex |-> NoMutex, triage |-> NoTriage, result |-> UDS_SUCCESS,
   locks |-> 0, lookups |-> 0, touched |-> {}, held |-> TRUE,
   seen |-> 0, torn |-> FALSE, returned |-> <<>>, visited |-> <<>>]

\* struct master_index_record, as far as this layer and its callers use it
NoRecord == [name |-> NoName, mutex |-> NoMutex, pending |-> FALSE]

\* The threads executing a call into the hook index for zone z.
InHook(z) ==
  {t \in Threads : /\ pc[t] \in {"tr_lookup", "gr_lookup", "sz_hook",
                                  "sz_hook2", "mu_hook"}
                   /\ loc[t].zone = z}

\* Whether thread t, reading the hook index of zone z, finds it in the
\* middle of a change: a half updated chapter window, or another thread
\* inside the zone (the sub-index's own lookup may flush, so every call
\* into it writes).
HookBusy(t, z) == updating[miHook][z] \/ (InHook(z) \ {t}) # {}

\* The threads executing a call into the non-hook index.
InNonHook == {t \in Threads : pc[t] \in {"sz_dense", "gr_dense", "mu_dense"}}

(***************************************************************************)
(* lockMutex / unlockMutex (threads.h) on masterZones[z].hookMutex.  The   *)
(* mutex is not recursive: a thread locking a mutex it holds blocks.       *)
(***************************************************************************)
lockMutex(t, z) ==
  /\ hookMutex[z] = NoThread
  /\ hookMutex' = [hookMutex EXCEPT ![z] = t]

unlockMutex(t, z) ==
  hookMutex' = [hookMutex EXCEPT ![z] = IF @ = t THEN NoThread ELSE @]

\* The sub-index calls this layer makes under a zone, on the sub-index side.
\* setMasterIndexZoneOpenChapter moves the chapter window of the zone in two
\* steps: between them the window is half updated.
subBeginOpenChapter(sub, z) ==
  updating' = [updating EXCEPT ![sub][z] = TRUE]

subEndOpenChapter(sub, z, v) ==
  /\ openChapter' = [openChapter EXCEPT ![sub][z] = v]
  /\ updating' = [updating EXCEPT ![sub][z] = FALSE]

\* What a thread starts a call with.
Call(op, name, zone) ==
  [NoCall EXCEPT !.op = op, !.name = name, !.zone = zone]

Idle(t) == pc[t] = "idle" /\ life.state = "live" /\ t \in Threads

(***************************************************************************)
(* lookupMasterIndexName_006: the triage lookup, the one operation another *)
(* thread than the zone's may run.                                         *)
(***************************************************************************)
\* Lines 538-542: classify, compute the zone; a non-sample returns here.
lookupMasterIndexName_006_begin(t, name) ==
  /\ Idle(t)
  /\ LET isSample == isMasterIndexSample_006(name)
         zone == getMasterIndexZone_006(name)
     IN /\ loc' = [loc EXCEPT ![t] =
                     [Call("lookupName", name, zone) EXCEPT
                        !.triage = [isSample |-> isSample,
                                    inSampledChapter |-> FALSE,
                                    zone |-> zone],
                        !.touched = {getSubIndex(name)}]]
        /\ pc' = [pc EXCEPT ![t] = IF isSample THEN "tr_lock" ELSE "idle"]
  /\ UNCHANGED <<vdoVars, cfgVars, lifeVars, advances, hookMutex, openChapter,
                 updating, record>>

\* Line 544 without the lockMutex call.
lookupMasterIndexName_006_lock_none(t) ==
  /\ pc[t] = "tr_lock"
  /\ loc' = [loc EXCEPT ![t].mutex = loc[t].triage.zone]
  /\ pc' = [pc EXCEPT ![t] = "tr_lookup"]
  /\ UNCHANGED <<vdoVars, cfgVars, lifeVars, advances, hookMutex, openChapter,
                 updating, record>>

\* Lines 543-544.
lookupMasterIndexName_006_lock(t) ==
  /\ pc[t] = "tr_lock"
  /\ lockMutex(t, loc[t].triage.zone)
  /\ loc' = [loc EXCEPT ![t].mutex = loc[t].triage.zone,
                        ![t].locks = @ + 1]
  /\ pc' = [pc EXCEPT ![t] = "tr_lookup"]
  /\ UNCHANGED <<vdoVars, cfgVars, lifeVars, advances, openChapter, updating,
                 record>>

\* Line 545: lookupMasterIndexSampledName(mi6->miHook, name, triage).
lookupMasterIndexName_006_lookup(t) ==
  /\ pc[t] = "tr_lookup"
  /\ \E r \in {UDS_SUCCESS, SUB_ERROR}, found \in BOOLEAN :
       /\ r = SUB_ERROR => ~found
       /\ loc' = [loc EXCEPT
                    ![t].result = r,
                    ![t].returned = Append(@, r),
                    ![t].triage.inSampledChapter = found,
                    ![t].lookups = @ + 1,
                    ![t].touched = @ \cup {miHook},
                    ![t].held = @ /\ hookMutex[loc[t].zone] = t,
                    ![t].seen = openChapter[miHook][loc[t].zone],
                    ![t].torn = HookBusy(t, loc[t].zone)]
  /\ pc' = [pc EXCEPT ![t] = "tr_unlock"]
  /\ UNCHANGED <<vdoVars, cfgVars, lifeVars, advances, hookMutex, openChapter,
                 updating, record>>

\* Line 546 without the unlockMutex call.
lookupMasterIndexName_006_unlock_leak(t) ==
  /\ pc[t] = "tr_unlock"
  /\ IF loc[t].result = UDS_SUCCESS
       THEN unlockMutex(t, loc[t].mutex)
       ELSE UNCHANGED hookMutex
  /\ pc' = [pc EXCEPT ![t] = "idle"]
  /\ UNCHANGED <<vdoVars, cfgVars, lifeVars, advances, openChapter, updating,
                 loc, record>>

\* Lines 546-548.
lookupMasterIndexName_006_unlock(t) ==
  /\ pc[t] = "tr_unlock"
  /\ unlockMutex(t, loc[t].mutex)
  /\ pc' = [pc EXCEPT ![t] = "idle"]
  /\ UNCHANGED <<vdoVars, cfgVars, lifeVars, advances, openChapter, updating,
                 loc, record>>

(***************************************************************************)
(* setMasterIndexZoneOpenChapter_006, run by the zone's thread.  The       *)
(* caller opens the next chapter of its zone.                              *)
(***************************************************************************)
setMasterIndexZoneOpenChapter_006_begin(t, zoneNumber, virtualChapter) ==
  /\ Idle(t)
  /\ t \in Owners /\ t = zoneNumber
  /\ virtualChapter = openChapter[miNonHook][zoneNumber] + 1
  /\ virtualChapter <= MaxChapter
  /\ loc' = [loc EXCEPT ![t] =
               [Call("setZoneOpenChapter", NoName, zoneNumber) EXCEPT
                  !.virtualChapter = virtualChapter]]
  /\ pc' = [pc EXCEPT ![t] = "sz_dense"]
  /\ UNCHANGED <<vdoVars, cfgVars, lifeVars, advances, hookMutex, openChapter,
                 updating, record>>

\* Line 474: setMasterIndexZoneOpenChapter(mi6->miNonHook, ...).
setMasterIndexZoneOpenChapter_006_dense(t) ==
  /\ pc[t] = "sz_dense"
  /\ openChapter' = [openChapter EXCEPT
                       ![miNonHook][loc[t].zone] = loc[t].virtualChapter]
  /\ loc' = [loc EXCEPT
               ![t].touched = @ \cup {miNonHook},
               ![t].visited = Append(@, <<miNonHook, loc[t].zone>>)]
  /\ pc' = [pc EXCEPT ![t] = "sz_lock"]
  /\ UNCHANGED <<vdoVars, cfgVars, lifeVars, advances, hookMutex, updating,
                 record>>

\* Line 479 without the lockMutex call.
setMasterIndexZoneOpenChapter_006_lock_none(t) ==
  /\ pc[t] = "sz_lock"
  /\ loc' = [loc EXCEPT ![t].mutex = loc[t].zone]
  /\ pc' = [pc EXCEPT ![t] = "sz_hook"]
  /\ UNCHANGED <<vdoVars, cfgVars, lifeVars, advances, hookMutex, openChapter,
                 updating, record>>

\* Lines 478-479.
setMasterIndexZoneOpenChapter_006_lock(t) ==
  /\ pc[t] = "sz_lock"
  /\ lockMutex(t, loc[t].zone)
  /\ loc' = [loc EXCEPT ![t].mutex = loc[t].zone, ![t].locks = @ + 1]
  /\ pc' = [pc EXCEPT ![t] = "sz_hook"]
  /\ UNCHANGED <<vdoVars, cfgVars, lifeVars, advances, openChapter, updating,
                 record>>

\* Line 480: setMasterIndexZoneOpenChapter(mi6->miHook, ...) starts ...
setMasterIndexZoneOpenChapter_006_hook(t) ==
  /\ pc[t] = "sz_hook"
  /\ subBeginOpenChapter(miHook, loc[t].zone)
  /\ loc' = [loc EXCEPT ![t].touched = @ \cup {miHook},
                        ![t].held = @ /\ hookMutex[loc[t].zone] = t]
  /\ pc' = [pc EXCEPT ![t] = "sz_hook2"]
  /\ UNCHANGED <<vdoVars, cfgVars, lifeVars, advances, hookMutex, openChapter,
                 record>>

\* ... and returns.
setMasterIndexZoneOpenChapter_006_hook_done(t) ==
  /\ pc[t] = "sz_hook2"
  /\ subEndOpenChapter(miHook, loc[t].zone, loc[t].virtualChapter)
  /\ loc' = [loc EXCEPT ![t].visited = Append(@, <<miHook, loc[t].zone>>)]
  /\ pc' = [pc EXCEPT ![t] = "sz_unlock"]
  /\ UNCHANGED <<vdoVars, cfgVars, lifeVars, advances, hookMutex, record>>

\* Lines 481-482: unlock and return, to the zone thread's caller, whose
\* advance this was, or into the loop of setMasterIndexOpenChapter_006.
setMasterIndexZoneOpenChapter_006_unlock(t) ==
  /\ pc[t] = "sz_unlock"
  /\ unlockMutex(t, loc[t].mutex)
  /\ IF loc[t].op = "setOpenChapter"
       THEN /\ advances' = advances
            /\ pc' = [pc EXCEPT ![t] = "so_next"]
       ELSE /\ advances' = [advances EXCEPT ![loc[t].zone] = @ + 1]
            /\ pc' = [pc EXCEPT ![t] = "idle"]
  /\ UNCHANGED <<vdoVars, cfgVars, lifeVars, openChapter, updating, loc, record>>

(***************************************************************************)
(* setMasterIndexOpenChapter_006: the per-zone call for every zone.  Its   *)
(* loop variable is loc[t].zone.                                           *)
(***************************************************************************)
\* Lines 495-499: zone = 0 and the first test of the loop.
setMasterIndexOpenChapter_006_begin(t, virtualChapter) ==
  /\ Idle(t)
  /\ loc' = [loc EXCEPT ![t] =
               [Call("setOpenChapter", NoName, 0) EXCEPT
                  !.virtualChapter = virtualChapter]]
  /\ pc' = [pc EXCEPT ![t] = IF 0 < numZones THEN "sz_dense" ELSE "idle"]
  /\ UNCHANGED <<vdoVars, cfgVars, lifeVars, advances, hookMutex, openChapter,
                 updating, record>>

\* Line 499 stepping over a zone: zone += 2.
setMasterIndexOpenChapter_006_next_skip(t) ==
  /\ pc[t] = "so_next"
  /\ loc' = [loc EXCEPT ![t].zone = @ + 2, ![t].mutex = NoMutex]
  /\ pc' = [pc EXCEPT ![t] = IF loc[t].zone + 2 < numZones THEN "sz_dense"
                             ELSE "idle"]
  /\ UNCHANGED <<vdoVars, cfgVars, lifeVars, advances, hookMutex, openChapter,
                 updating, record>>

\* Line 499: zone++ and the test; line 500 is the next per-zone call, whose
\* local mutex is a new one.
setMasterIndexOpenChapter_006_next(t) ==
  /\ pc[t] = "so_next"
  /\ loc' = [loc EXCEPT ![t].zone = @ + 1, ![t].mutex = NoMutex]
  /\ pc' = [pc EXCEPT ![t] = IF loc[t].zone + 1 < numZones THEN "sz_dense"
                             ELSE "idle"]
  /\ UNCHANGED <<vdoVars, cfgVars, lifeVars, advances, hookMutex, openChapter,
                 updating, record>>

(***************************************************************************)
(* getMasterIndexRecord_006, run by the thread of the name's zone.         *)
(***************************************************************************)
\* Lines 612 and 619-620: classify; for a sample, find the hook zone.
getMasterIndexRecord_006_begin(t, name) ==
  /\ Idle(t)
  /\ t \in Owners /\ t = getMasterIndexZone_006(name)
  /\ IF isMasterIndexSample_006(name)
       THEN /\ loc' = [loc EXCEPT ![t] =
                         [Call("getRecord", name,
                               getMasterIndexZone(miHook, name)) EXCEPT
                            !.triage.isSample = TRUE,
                            !.touched = {miHook}]]
            /\ pc' = [pc EXCEPT ![t] = "gr_lock"]
       ELSE /\ loc' = [loc EXCEPT ![t] = Call("getRecord", name, t)]
            /\ pc' = [pc EXCEPT ![t] = "gr_dense"]
  /\ UNCHANGED <<vdoVars, cfgVars, lifeVars, advances, hookMutex, openChapter,
                 updating, record>>

\* Line 621 without the lockMutex call.
getMasterIndexRecord_006_lock_none(t) ==
  /\ pc[t] = "gr_lock"
  /\ loc' = [loc EXCEPT ![t].mutex = loc[t].zone]
  /\ pc' = [pc EXCEPT ![t] = "gr_lookup"]
  /\ UNCHANGED <<vdoVars, cfgVars, lifeVars, advances, hookMutex, openChapter,
                 updating, record>>

\* Lines 620-621.
getMasterIndexRecord_006_lock(t) ==
  /\ pc[t] = "gr_lock"
  /\ lockMutex(t, loc[t].zone)
  /\ loc' = [loc EXCEPT ![t].mutex = loc[t].zone, ![t].locks = @ + 1]
  /\ pc' = [pc EXCEPT ![t] = "gr_lookup"]
  /\ UNCHANGED <<vdoVars, cfgVars, lifeVars, advances, openChapter, updating,
                 record>>

\* Line 622: getMasterIndexRecord(mi6->miHook, name, record).  The sub-index
\* fills the record; its own records carry no mutex.
getMasterIndexRecord_006_lookup(t) ==
  /\ pc[t] = "gr_lookup"
  /\ \E r \in {UDS_SUCCESS, SUB_ERROR} :
       /\ loc' = [loc EXCEPT
                    ![t].result = r,
                    ![t].returned = Append(@, r),
                    ![t].lookups = @ + 1,
                    ![t].touched = @ \cup {miHook},
                    ![t].held = @ /\ hookMutex[loc[t].zone] = t,
                    ![t].seen = openChapter[miHook][loc[t].zone],
                    ![t].torn = HookBusy(t, loc[t].zone)]
       /\ record' = [record EXCEPT ![t] =
                       [name |-> loc[t].name, mutex |-> NoMutex,
                        pending |-> (r = UDS_SUCCESS)]]
  /\ pc' = [pc EXCEPT ![t] = "gr_unlock"]
  /\ UNCHANGED <<vdoVars, cfgVars, lifeVars, advances, hookMutex, openChapter,
                 updating>>

\* Line 623 without the unlockMutex call: the mutex is kept at return.
getMasterIndexRecord_006_unlock_kept(t) ==
  /\ pc[t] = "gr_unlock"
  /\ record' = [record EXCEPT ![t].mutex = loc[t].mutex]
  /\ pc' = [pc EXCEPT ![t] = "idle"]
  /\ UNCHANGED <<vdoVars, cfgVars, lifeVars, advances, hookMutex, openChapter,
                 updating, loc>>

\* Lines 623-626 and 630: unlock, remember the mutex in the record, return.
getMasterIndexRecord_006_unlock(t) ==
  /\ pc[t] = "gr_unlock"
  /\ unlockMutex(t, loc[t].mutex)
  /\ record' = [record EXCEPT ![t].mutex = loc[t].mutex]
  /\ pc' = [pc EXCEPT ![t] = "idle"]
  /\ UNCHANGED <<vdoVars, cfgVars, lifeVars, advances, openChapter, updating,
                 loc>>

\* Line 628: getMasterIndexRecord(mi6->miNonHook, name, record).
getMasterIndexRecord_006_dense(t) ==
  /\ pc[t] = "gr_dense"
  /\ \E r \in {UDS_SUCCESS, SUB_ERROR} :
       /\ loc' = [loc EXCEPT ![t].result = r,
                             ![t].returned = Append(@, r),
                             ![t].touched = @ \cup {miNonHook}]
       /\ record' = [record EXCEPT ![t] =
                       [name |-> loc[t].name, mutex |-> NoMutex,
                        pending |-> (r = UDS_SUCCESS)]]
  /\ pc' = [pc EXCEPT ![t] = "idle"]
  /\ UNCHANGED <<vdoVars, cfgVars, lifeVars, advances, hookMutex, openChapter,
                 updating>>

(***************************************************************************)
(* The mutation a caller makes through the record it got                   *)
(* (putMasterIndexRecord / removeMasterIndexRecord of the sub-index): it   *)
(* takes the mutex the record remembers, changes the entry and releases    *)
(* the mutex.                                                              *)
(***************************************************************************)
mutateMasterIndexRecord_begin(t, op) ==
  /\ Idle(t)
  /\ record[t].pending
  /\ loc' = [loc EXCEPT ![t] =
               Call(op, record[t].name,
                    IF record[t].mutex = NoMutex THEN t ELSE record[t].mutex)]
  /\ pc' = [pc EXCEPT ![t] =
              IF record[t].mutex = NoMutex THEN "mu_dense" ELSE "mu_lock"]
  /\ UNCHANGED <<vdoVars, cfgVars, lifeVars, advances, hookMutex, openChapter,
                 updating, record>>

mutateMasterIndexRecord_lock(t) ==
  /\ pc[t] = "mu_lock"
  /\ lockMutex(t, record[t].mutex)
  /\ loc' = [loc EXCEPT ![t].mutex = record[t].mutex, ![t].locks = @ + 1]
  /\ pc' = [pc EXCEPT ![t] = "mu_hook"]
  /\ UNCHANGED <<vdoVars, cfgVars, lifeVars, advances, openChapter, updating,
                 record>>

mutateMasterIndexRecord_hook(t) ==
  /\ pc[t] = "mu_hook"
  /\ loc' = [loc EXCEPT ![t].touched = @ \cup {miHook},
                        ![t].held = @ /\ hookMutex[loc[t].zone] = t]
  /\ pc' = [pc EXCEPT ![t] = "mu_unlock"]
  /\ UNCHANGED <<vdoVars, cfgVars, lifeVars, advances, hookMutex, openChapter,
                 updating, record>>

mutateMasterIndexRecord_unlock(t) ==
  /\ pc[t] = "mu_unlock"
  /\ unlockMutex(t, loc[t].mutex)
  /\ record' = [record EXCEPT ![t] = NoRecord]
  /\ pc' = [pc EXCEPT ![t] = "idle"]
  /\ UNCHANGED <<vdoVars, cfgVars, lifeVars, advances, openChapter, updating,
                 loc>>

mutateMasterIndexRecord_dense(t) ==
  /\ pc[t] = "mu_dense"
  /\ loc' = [loc EXCEPT ![t].touched = @ \cup {miNonHook}]
  /\ record' = [record EXCEPT ![t] = NoRecord]
  /\ pc' = [pc EXCEPT ![t] = "idle"]
  /\ UNCHANGED <<vdoVars, cfgVars, lifeVars, advances, hookMutex, openChapter,
                 updating>>

(***************************************************************************)
(* The life cycle.                                                         *)
(*   life.state   "none": no index; "live": made and not freed;            *)
(*                "crashed": the process died (a division by zero)         *)
(*   life.op, life.result   the last safe-point call and what it returned  *)
(*   life.config  the configuration the last call was given, if any        *)
(*   life.split   the struct split_config of the last call, if it had one   *)
(*   life.made    the sample rate and zone count makeMasterIndex006 got    *)
(*   life.events  the calls the last safe-point call made, in order        *)
(***************************************************************************)
NoConfig ==
  [sparse_sample_rate |-> 0,
   geometry |-> [chapters_per_volume |-> 0, sparse_chapters_per_volume |-> 0,
                 records_per_chapter |-> 0]]

\* Where a configuration's geometry pointer points.
InputGeometry == "config->geometry"
HookGeometry == "&split->hookGeometry"
NonHookGeometry == "&split->nonHookGeometry"
NoGeometry == "unset"

\* A struct split_config that was not written.
NoSplit ==
  [result |-> UDS_SUCCESS, config |-> NoConfig,
   hookConfig |-> NoConfig, hookGeometry |-> NoGeometry,
   nonHookConfig |-> NoConfig, nonHookGeometry |-> NoGeometry]

NoLife == [state |-> "none", op |-> "none", config |-> NoConfig,
           split |-> NoSplit,
           result |-> UDS_SUCCESS, made |-> [rate |-> 0, zones |-> 0],
           events |-> <<>>]

\* One call the index makes to a collaborator: what, on which sub-index
\* ("" when on none), with which number.
Event(call, sub, n) == [call |-> call, sub |-> sub, n |-> n]

\* heap.mi6, heap.zones: the composite and its zone table;
\* heap.mutex[z]: "none", "init", "destroyed", or "destroyed_uninit" for a
\* mutex destroyed without having been initialized;
\* heap.sub[s]: the sub-indices.
NoHeap == [mi6 |-> "none", zones |-> "none",
           mutex |-> [z \in AllZones |-> "none"],
           sub |-> [s \in SubIndexes |-> "none"]]

LiveHeap(zones) ==
  [mi6 |-> "live", zones |-> "live",
   mutex |-> [z \in AllZones |-> IF z < zones THEN "init" ELSE "none"],
   sub |-> [s \in SubIndexes |-> "live"]]

NoBytes == -1

\* What the last safe-point call wrote through its output pointers:
\* *masterIndex of makeMasterIndex006 and *numBytes of
\* computeMasterIndexSaveBytes006, "unset" and NoBytes when not written.
NoOut == [masterIndex |-> "unset", numBytes |-> NoBytes]

\* The last answer of isMasterIndexSample or getMasterIndexZone through the
\* method table: the name asked about, the sample rate and zone count of the
\* index at the call, and the answer (sample or zone, by op).
NoAnswer == [op |-> "none", name |-> NoName, rate |-> 0, zones |-> 0,
             sample |-> FALSE, zone |-> 0]

\* What a sub-index holds, as far as saving and restoring it goes: "empty"
\* in a new sub-index, "records" once it has been filled.
EmptyContent == [sub \in SubIndexes |-> "empty"]
FullContent == [sub \in SubIndexes |-> "records"]

\* What the last call handed back other than a result code: the bool of
\* isSavingMasterIndexDone_006 and isRestoringMasterIndexDone_006, the size
\* of getMasterIndexMemoryUsed_006, the record counts in the caller's two
\* struct master_index_stats after getMasterIndexStats_006 (NoStats where
\* not written), and the caller's triage after
\* lookupMasterIndexSampledName_006.
NoStats == -1
NoReply == [done |-> FALSE, used |-> 0, dense |-> NoStats,
            sparse |-> NoStats, triage |-> NoTriage]

\* The arguments of the last save, restore or query call: the readers of a
\* restore, the zone of a save, what the sub-index calls were to return
\* (results) or to answer (reports), the name and the caller's triage at
\* the call; and what the call handed back.
NoZone == -1
NoArgs == [readers |-> <<>>, zoneNumber |-> NoZone, header |-> "none",
           results |-> <<>>, reports |-> <<>>, name |-> NoName,
           triage |-> NoTriage, reply |-> NoReply]

\* The buffered writer of one zone: the writes of the last
\* startSavingMasterIndex_006 of the zone, in order, and, when that call
\* succeeded, the sample rate and the contents of the index at the call.
NoStream == [writes |-> <<>>, rate |-> 0, content |-> EmptyContent]

\* io.args: see NoArgs; io.stream[z]: see NoStream; io.content[sub]: what
\* each sub-index of the composite holds.
NoIo == [args |-> NoArgs, stream |-> [z \in AllZones |-> NoStream],
         content |-> EmptyContent]

(***************************************************************************)
(* The block layer: a metadata vio and its completion (src/vdo/vio.c), the *)
(* bio statistics (bio.c) and the kernel layer's allocations.              *)
(***************************************************************************)
VDO_SUCCESS == "VDO_SUCCESS"
VDO_READ_ONLY == "VDO_READ_ONLY"
VDO_NO_SPACE == "VDO_NO_SPACE"
EIO == "EIO"

\* A vdo_action pointer is a pair: the function, and for a caller's function
\* which one of the callers' it is.
NULL == <<"NULL", 0>>
vio_done_callback_action == <<"vio_done_callback", 0>>
handle_metadata_io_error_action == <<"handle_metadata_io_error", 0>>
CallerActions == {<<"caller", n>> : n \in 1 .. MaxHandlers}

VIO_READ == "VIO_READ"
VIO_WRITE == "VIO_WRITE"

\* The vio after initialize_vio (lines 43-61), its struct vdo_completion
\* after initialize_completion, with the error statistics of
\* its vdo.  launched and events are ghosts: the handlers every
\* launch_metadata_vio was given, oldest first, and what the last completion
\* ran, in order.
NoVio ==
  [operation |-> VIO_READ, physical |-> 0,
   callback |-> NULL, error_handler |-> NULL,
   completion |-> [callback |-> NULL, error_handler |-> NULL,
                   result |-> VDO_SUCCESS, complete |-> FALSE],
   submitted |-> FALSE,
   error_stats |-> [read_only_error_count |-> 0, no_space_error_count |-> 0],
   launched |-> <<>>, events |-> <<>>]

\* A bio as vdo_count_bios reads it: the operation and the flags of bi_opf
\* (bio_op is the operation, REQ_PREFLUSH and REQ_FUA are two of the flag
\* bits) and bi_iter.bi_size.
REQ_OP_READ == "REQ_OP_READ"
REQ_OP_WRITE == "REQ_OP_WRITE"
REQ_OP_FLUSH == "REQ_OP_FLUSH"
REQ_OP_DISCARD == "REQ_OP_DISCARD"
REQ_PREFLUSH == "REQ_PREFLUSH"
REQ_FUA == "REQ_FUA"

\* The counters of a struct atomic_bio_stats that vdo_count_bios updates,
\* all zero; bio and logged are ghosts: the bio counted last, and whether
\* counting it wrote the assertion's line to the log.
NoBioStats ==
  [read |-> 0, write |-> 0, discard |-> 0, flush |-> 0, empty_flush |-> 0,
   fua |-> 0, counted |-> 0,
   bio |-> [bi_opf |-> [op |-> REQ_OP_READ, flags |-> {}],
            bi_iter |-> [bi_size |-> 0]],
   logged |-> FALSE]

\* The kernel layer's heap: the live bios, metadata kvios and trace records
\* by number, and one caller of kvdo_create_metadata_vio: its VIO pointers
\* (Unassigned before it was ever written, NoVioPtr when NULL, else the
\* kvio whose vio it points to).  call, result and events are ghosts: the
\* arguments and the result of the last call on the layer, and what it
\* allocated and freed, in order; so is made, the number handed out last.
Unassigned == -1
NoVioPtr == 0

NoLayer ==
  [bios |-> {}, kvios |-> {}, traces |-> {},
   vio_ptr |-> [p \in 1 .. MaxVioPtrs |-> Unassigned],
   made |-> 0,
   call |-> "none", vio_type |-> "none", priority |-> "none",
   result |-> VDO_SUCCESS, events |-> <<>>]

NoVdo ==
  /\ vio = NoVio
  /\ bio_stats = NoBioStats
  /\ layer = NoLayer

(***************************************************************************)
(* The state after a successful makeMasterIndex006(config, numZones, ...). *)
(***************************************************************************)
Live(rate, zones) ==
  /\ sparseSampleRate = rate
  /\ numZones = zones
  /\ hookMutex = [z \in AllZones |-> NoThread]
  /\ openChapter = [sub \in SubIndexes |-> [z \in AllZones |-> 0]]
  /\ updating = [sub \in SubIndexes |-> [z \in AllZones |-> FALSE]]
  /\ pc = [t \in AllThreads |-> "idle"]
  /\ loc = [t \in AllThreads |-> NoCall]
  /\ record = [t \in AllThreads |-> NoRecord]
  /\ advances = [z \in AllZones |-> 0]

(***************************************************************************)
(* SpecConc: the threads of a live index.                                  *)
(***************************************************************************)
InitConc ==
  /\ \E rate \in 1 .. MaxRate :
       /\ Live(rate, MaxZones)
       /\ life = [NoLife EXCEPT !.state = "live",
                                !.made = [rate |-> rate, zones |-> MaxZones]]
  /\ heap = LiveHeap(MaxZones)
  /\ out = [NoOut EXCEPT !.masterIndex = "set"]
  /\ answer = NoAnswer
  /\ io = NoIo
  /\ NoVdo

\* Any step of thread t.
ThreadStep(t) ==
  \/ \E name \in Names : lookupMasterIndexName_006_begin(t, name)
  \/ lookupMasterIndexName_006_lock(t)
  \/ lookupMasterIndexName_006_lookup(t)
  \/ lookupMasterIndexName_006_unlock(t)
  \/ \E z \in Zones, v \in 1 .. MaxChapter :
       setMasterIndexZoneOpenChapter_006_begin(t, z, v)
  \/ setMasterIndexZoneOpenChapter_006_dense(t)
  \/ setMasterIndexZoneOpenChapter_006_lock(t)
  \/ setMasterIndexZoneOpenChapter_006_hook(t)
  \/ setMasterIndexZoneOpenChapter_006_hook_done(t)
  \/ setMasterIndexZoneOpenChapter_006_unlock(t)
  \/ \E name \in Names : getMasterIndexRecord_006_begin(t, name)
  \/ getMasterIndexRecord_006_lock(t)
  \/ getMasterIndexRecord_006_lookup(t)
  \/ getMasterIndexRecord_006_unlock(t)
  \/ getMasterIndexRecord_006_dense(t)
  \/ \E op \in {"putRecord", "removeRecord"} :
       mutateMasterIndexRecord_begin(t, op)
  \/ mutateMasterIndexRecord_lock(t)
  \/ mutateMasterIndexRecord_hook(t)
  \/ mutateMasterIndexRecord_unlock(t)
  \/ mutateMasterIndexRecord_dense(t)

NextConc ==
  \/ \E t \in Threads, name \in Names : lookupMasterIndexName_006_begin(t, name)
  \/ \E t \in Threads : lookupMasterIndexName_006_lock(t)
  \/ \E t \in Threads : lookupMasterIndexName_006_lookup(t)
  \/ \E t \in Threads : lookupMasterIndexName_006_unlock(t)
  \/ \E t \in Threads, z \in Zones, v \in 1 .. MaxChapter :
       setMasterIndexZoneOpenChapter_006_begin(t, z, v)
  \/ \E t \in Threads : setMasterIndexZoneOpenChapter_006_dense(t)
  \/ \E t \in Threads : setMasterIndexZoneOpenChapter_006_lock(t)
  \/ \E t \in Threads : setMasterIndexZoneOpenChapter_006_hook(t)
  \/ \E t \in Threads : setMasterIndexZoneOpenChapter_006_hook_done(t)
  \/ \E t \in Threads : setMasterIndexZoneOpenChapter_006_unlock(t)
  \/ \E t \in Threads, name \in Names : getMasterIndexRecord_006_begin(t, name)
  \/ \E t \in Threads : getMasterIndexRecord_006_lock(t)
  \/ \E t \in Threads : getMasterIndexRecord_006_lookup(t)
  \/ \E t \in Threads : getMasterIndexRecord_006_unlock(t)
  \/ \E t \in Threads : getMasterIndexRecord_006_dense(t)
  \/ \E t \in Threads, op \in {"putRecord", "removeRecord"} :
       mutateMasterIndexRecord_begin(t, op)
  \/ \E t \in Threads : mutateMasterIndexRecord_lock(t)
  \/ \E t \in Threads : mutateMasterIndexRecord_hook(t)
  \/ \E t \in Threads : mutateMasterIndexRecord_unlock(t)
  \/ \E t \in Threads : mutateMasterIndexRecord_dense(t)

SpecConc == InitConc /\ [][NextConc]_vars

(***************************************************************************)
(* splitConfiguration006: the hook and non-hook configurations.            *)
(***************************************************************************)
Geometries ==
  [chapters_per_volume : {MaxChaptersPerVolume},
   sparse_chapters_per_volume : 0 .. MaxChaptersPerVolume,
   records_per_chapter : 1 .. MaxRecordsPerChapter]

Configurations == [sparse_sample_rate : 0 .. MaxRate, geometry : Geometries]

\* The fields of a geometry are unsigned.  An unsigned value is held as the
\* integer with the same bits in two's complement: a value below half the
\* range as itself, a value u above it as u minus the range, a negative
\* number.  Sums and differences modulo the range are then the integers'
\* own, and the unsigned order is UnsignedLeq.
UnsignedLeq(a, b) == IF (a < 0) = (b < 0) THEN a <= b ELSE b < 0

\* The split of an accepted configuration, lines 702-724:
\*   config           the caller's configuration and geometry after the call
\*   hookConfig, nonHookConfig      the two configurations, each shown with
\*                                  the geometry its pointer points at
\*   hookGeometry, nonHookGeometry  where those pointers point
splitGeometry(config) ==
  LET sampleRate == config.sparse_sample_rate
      numChapters == config.geometry.chapters_per_volume
      numSparseChapters == config.geometry.sparse_chapters_per_volume
      numDenseChapters == numChapters - numSparseChapters
      sampleRecords ==
        IF sampleRate = 0 THEN 0
        ELSE config.geometry.records_per_chapter \div sampleRate
  IN [result |-> UDS_SUCCESS,
      config |-> config,
      hookConfig |->
        [config EXCEPT !.geometry.records_per_chapter = sampleRecords,
                       !.geometry.sparse_chapters_per_volume = 0],
      hookGeometry |-> HookGeometry,
      nonHookConfig |->
        [config EXCEPT !.geometry.records_per_chapter = @ - sampleRecords,
                       !.geometry.sparse_chapters_per_volume = 0,
                       !.geometry.chapters_per_volume = numDenseChapters],
      nonHookGeometry |-> NonHookGeometry]

\* splitConfiguration006 without the two checks of lines 685-700.
splitConfiguration006_unchecked(config) == splitGeometry(config)

\* splitConfiguration006 without line 719: the non-hook index keeps all the
\* records of a chapter.
splitConfiguration006_all_records(config) ==
  IF config.geometry.sparse_chapters_per_volume = 0
       \/ config.sparse_sample_rate = 0
    THEN [NoSplit EXCEPT !.result = UDS_INVALID_ARGUMENT, !.config = config]
  ELSE [splitGeometry(config) EXCEPT
          !.nonHookConfig.geometry.records_per_chapter =
             config.geometry.records_per_chapter]

\* splitConfiguration006 without lines 706 and 709: the two configurations
\* keep the geometry pointer they were copied with.
splitConfiguration006_shared(config) ==
  IF config.geometry.sparse_chapters_per_volume = 0
       \/ config.sparse_sample_rate = 0
    THEN [NoSplit EXCEPT !.result = UDS_INVALID_ARGUMENT, !.config = config]
  ELSE [splitGeometry(config) EXCEPT
          !.hookConfig = config, !.hookGeometry = InputGeometry,
          !.nonHookConfig = config, !.nonHookGeometry = InputGeometry]

\* Lines 682-725.  On an error the split is not written.
splitConfiguration006(config) ==
  IF config.geometry.sparse_chapters_per_volume = 0
    THEN [NoSplit EXCEPT !.result = UDS_INVALID_ARGUMENT, !.config = config]
  ELSE IF config.sparse_sample_rate = 0
    THEN [NoSplit EXCEPT !.result = UDS_INVALID_ARGUMENT, !.config = config]
  ELSE splitGeometry(config)

(***************************************************************************)
(* freeMasterIndex_006 on the composite: what it leaves of the heap, and   *)
(* the calls it makes.                                                     *)
(***************************************************************************)
DestroyedMutex(m) ==
  IF m = "init" THEN "destroyed"
  ELSE IF m = "none" THEN "destroyed_uninit"
  ELSE "destroyed_twice"

\* freeMasterIndex_006 without lines 123-126: the non-hook index is not
\* freed.
freeMasterIndex_006_leak(h, zones) ==
  [mi6 |-> "freed",
   zones |-> IF h.zones = "live" THEN "freed" ELSE h.zones,
   mutex |-> [z \in AllZones |->
                IF h.zones = "live" /\ z < zones
                  THEN DestroyedMutex(h.mutex[z]) ELSE h.mutex[z]],
   sub |-> [s \in SubIndexes |->
              IF h.sub[s] = "live" /\ s = miHook THEN "freed" ELSE h.sub[s]]]

\* Lines 110-134.
freeMasterIndex_006(h, zones) ==
  [mi6 |-> "freed",
   zones |-> IF h.zones = "live" THEN "freed" ELSE h.zones,
   mutex |-> [z \in AllZones |->
                IF h.zones = "live" /\ z < zones
                  THEN DestroyedMutex(h.mutex[z]) ELSE h.mutex[z]],
   sub |-> [s \in SubIndexes |->
              IF h.sub[s] = "live" THEN "freed" ELSE h.sub[s]]]

RECURSIVE DestroyEvents(_, _)
DestroyEvents(z, zones) ==
  IF z >= zones THEN <<>>
  ELSE <<Event("destroyMutex", "", z)>> \o DestroyEvents(z + 1, zones)

\* The calls of lines 110-134 with the hook index freed before the
\* non-hook index.
freeMasterIndex_006_events_hook_first(h, zones) ==
  (IF h.zones = "live"
     THEN DestroyEvents(0, zones) \o <<Event("FREE masterZones", "", 0)>>
     ELSE <<>>)
  \o (IF h.sub[miHook] = "live"
        THEN <<Event("freeMasterIndex", miHook, 0)>> ELSE <<>>)
  \o (IF h.sub[miNonHook] = "live"
        THEN <<Event("freeMasterIndex", miNonHook, 0)>> ELSE <<>>)
  \o <<Event("FREE mi6", "", 0)>>

\* The calls of lines 110-134, in order.
freeMasterIndex_006_events(h, zones) ==
  (IF h.zones = "live"
     THEN DestroyEvents(0, zones) \o <<Event("FREE masterZones", "", 0)>>
     ELSE <<>>)
  \o (IF h.sub[miNonHook] = "live"
        THEN <<Event("freeMasterIndex", miNonHook, 0)>> ELSE <<>>)
  \o (IF h.sub[miHook] = "live"
        THEN <<Event("freeMasterIndex", miHook, 0)>> ELSE <<>>)
  \o <<Event("FREE mi6", "", 0)>>

(***************************************************************************)
(* makeMasterIndex006(config, numZones, volumeNonce, masterIndex).         *)
(* `fail` names the allocation or construction that fails, if any.         *)
(***************************************************************************)
NoFailure == [at |-> "none", zone |-> 0]
Failures(zones) ==
  {[at |-> a, zone |-> 0] :
     a \in {"none", "ALLOCATE mi6", "ALLOCATE masterZones",
            "make_master_index005 nonHook", "make_master_index005 hook"}}
  \cup {[at |-> "initMutex", zone |-> z] : z \in 0 .. (zones - 1)}

RECURSIVE InitEvents(_, _)
InitEvents(z, upto) ==
  IF z > upto THEN <<>>
  ELSE <<Event("initMutex", "", z)>> \o InitEvents(z + 1, upto)

\* The heap after lines 763-799: the zone table and the mutexes that were
\* initialized (all of them, or those before the one whose initMutex failed).
ZonesAllocated(zones, fail) ==
  [mi6 |-> "live",
   zones |-> IF fail.at = "ALLOCATE masterZones" THEN "none" ELSE "live",
   mutex |-> [z \in AllZones |->
                IF /\ z < zones
                   /\ fail.at # "ALLOCATE masterZones"
                   /\ (fail.at = "initMutex" => z < fail.zone)
                  THEN "init" ELSE "none"],
   sub |-> [s \in SubIndexes |-> "none"]]

\* The volume nonce makeMasterIndex006 is given.
VolumeNonce == "volumeNonce"

\* make_master_index005(config, numZones, volumeNonce, &sub).
MakeEvent(sub, config, zones, volumeNonce) ==
  [call |-> "make_master_index005", sub |-> sub, n |-> zones,
   config |-> config, volumeNonce |-> volumeNonce]

\* Lines 801-821 with the two configurations of the split exchanged.
makeSubIndexes_exchanged(split, zones) ==
  <<MakeEvent(miNonHook, split.hookConfig, zones, VolumeNonce),
    Event("setMasterIndexTag d", miNonHook, 0),
    MakeEvent(miHook, split.nonHookConfig, zones, VolumeNonce),
    Event("setMasterIndexTag s", miHook, 0)>>

\* Lines 801-821: the calls that make and tag the two sub-indices, in
\* order.
makeSubIndexes(split, zones) ==
  <<MakeEvent(miNonHook, split.nonHookConfig, zones, VolumeNonce),
    Event("setMasterIndexTag d", miNonHook, 0),
    MakeEvent(miHook, split.hookConfig, zones, VolumeNonce),
    Event("setMasterIndexTag s", miHook, 0)>>

\* Lines 753-825: the result, the heap it leaves, whether *masterIndex is
\* written, and the calls made.
makeMasterIndex006_outcome(config, zones, fail) ==
  LET split == splitConfiguration006(config)
      allocated == ZonesAllocated(zones, fail)
      lastInit == IF fail.at = "initMutex" THEN fail.zone ELSE zones - 1
      zoneEvents ==
        <<Event("ALLOCATE mi6", "", 0), Event("ALLOCATE masterZones", "", 0)>>
        \o (IF fail.at = "ALLOCATE masterZones" THEN <<>>
            ELSE InitEvents(0, lastInit))
      withNonHook == [allocated EXCEPT !.sub[miNonHook] = "live"]
      subEvents == makeSubIndexes(split, zones)
      nonHookEvents == zoneEvents \o SubSeq(subEvents, 1, 1)
      hookEvents == zoneEvents \o SubSeq(subEvents, 1, 3)
  IN IF split.result # UDS_SUCCESS
       THEN [result |-> split.result, heap |-> heap, written |-> FALSE,
             events |-> <<>>]
     ELSE IF fail.at = "ALLOCATE mi6"
       THEN [result |-> ENOMEM, heap |-> heap, written |-> FALSE,
             events |-> <<Event("ALLOCATE mi6", "", 0)>>]
     ELSE IF fail.at \in {"ALLOCATE masterZones", "initMutex"}
       THEN [result |-> ENOMEM,
             heap |-> freeMasterIndex_006(allocated, zones),
             written |-> FALSE,
             events |-> zoneEvents
                        \o freeMasterIndex_006_events(allocated, zones)]
     ELSE IF fail.at = "make_master_index005 nonHook"
       THEN [result |-> SUB_ERROR,
             heap |-> freeMasterIndex_006(allocated, zones),
             written |-> FALSE,
             events |-> nonHookEvents
                        \o freeMasterIndex_006_events(allocated, zones)]
     ELSE IF fail.at = "make_master_index005 hook"
       THEN [result |-> SUB_ERROR,
             heap |-> freeMasterIndex_006(withNonHook, zones),
             written |-> FALSE,
             events |-> hookEvents
                        \o freeMasterIndex_006_events(withNonHook, zones)]
     ELSE [result |-> UDS_SUCCESS, heap |-> LiveHeap(zones),
           written |-> TRUE,
           events |-> zoneEvents \o subEvents]

makeMasterIndex006(config, zones, fail) ==
  /\ life.state = "none"
  /\ LET o == makeMasterIndex006_outcome(config, zones, fail)
     IN /\ heap' = o.heap
        /\ life' = [life EXCEPT
                      !.state = IF o.written THEN "live" ELSE @,
                      !.op = "make", !.config = config,
                      !.split = splitConfiguration006(config),
                      !.result = o.result,
                      !.events = o.events,
                      !.made = IF o.written
                                 THEN [rate |-> config.sparse_sample_rate,
                                       zones |-> zones]
                                 ELSE @]
        /\ out' = [NoOut EXCEPT
                     !.masterIndex = IF o.written THEN "set" ELSE @]
        /\ sparseSampleRate' =
             IF o.written THEN config.sparse_sample_rate ELSE sparseSampleRate
        /\ numZones' = IF o.written THEN zones ELSE numZones
  /\ answer' = NoAnswer
  /\ io' = [io EXCEPT !.args = NoArgs, !.content = EmptyContent]
  /\ UNCHANGED <<vdoVars, concVars>>

(***************************************************************************)
(* computeMasterIndexSaveBytes006(config, numBytes).                       *)
(***************************************************************************)
MAGIC_SIZE == 8
MAGIC_MI_START == <<"M", "I", "6", "-", "0", "0", "0", "1">>
\* sizeof(struct mi006_data): the magic and an unsigned int
UINT_SIZE == 4
sizeof_mi006_data == MAGIC_SIZE + UINT_SIZE

\* compute_master_index_save_bytes005 of a sub-index configuration: a size
\* that grows with the records the sub-index holds.
compute_master_index_save_bytes005(config) ==
  config.geometry.records_per_chapter * config.geometry.chapters_per_volume

\* Lines 728-750 without the header's bytes in the sum of line 748.
computeMasterIndexSaveBytes006_no_header(config, hookResult, nonHookResult) ==
  LET split == splitConfiguration006(config)
      hookBytes == compute_master_index_save_bytes005(split.hookConfig)
      nonHookBytes == compute_master_index_save_bytes005(split.nonHookConfig)
  IN IF split.result # UDS_SUCCESS \/ hookResult # UDS_SUCCESS
          \/ nonHookResult # UDS_SUCCESS
       THEN [result |-> IF split.result # UDS_SUCCESS THEN split.result
                        ELSE SUB_ERROR,
             numBytes |-> NoBytes, events |-> <<>>]
     ELSE [result |-> UDS_SUCCESS, numBytes |-> hookBytes + nonHookBytes,
           events |-> <<Event("compute_master_index_save_bytes005",
                              miHook, hookBytes),
                        Event("compute_master_index_save_bytes005",
                              miNonHook, nonHookBytes)>>]

\* Lines 728-750.  hookResult and nonHookResult are what the sub-index's
\* size computation returns.
computeMasterIndexSaveBytes006_outcome(config, hookResult, nonHookResult) ==
  LET split == splitConfiguration006(config)
      hookBytes == compute_master_index_save_bytes005(split.hookConfig)
      nonHookBytes == compute_master_index_save_bytes005(split.nonHookConfig)
  IN IF split.result # UDS_SUCCESS
       THEN [result |-> split.result, numBytes |-> NoBytes,
             events |-> <<>>]
     ELSE IF hookResult # UDS_SUCCESS
       THEN [result |-> hookResult, numBytes |-> NoBytes,
             events |-> <<Event("compute_master_index_save_bytes005",
                                miHook, 0)>>]
     ELSE IF nonHookResult # UDS_SUCCESS
       THEN [result |-> nonHookResult, numBytes |-> NoBytes,
             events |-> <<Event("compute_master_index_save_bytes005",
                                miHook, hookBytes),
                          Event("compute_master_index_save_bytes005",
                                miNonHook, 0)>>]
     ELSE [result |-> UDS_SUCCESS,
           numBytes |-> sizeof_mi006_data + hookBytes + nonHookBytes,
           events |-> <<Event("compute_master_index_save_bytes005",
                              miHook, hookBytes),
                        Event("compute_master_index_save_bytes005",
                              miNonHook, nonHookBytes)>>]

computeMasterIndexSaveBytes006(config, hookResult, nonHookResult) ==
  /\ life.state = "none"
  /\ LET o == computeMasterIndexSaveBytes006_outcome(config, hookResult,
                                                     nonHookResult)
     IN /\ out' = [NoOut EXCEPT !.numBytes = o.numBytes]
        /\ life' = [life EXCEPT !.op = "computeSaveBytes",
                                !.config = config,
                                !.split = splitConfiguration006(config),
                                !.result = o.result, !.events = o.events]
  /\ UNCHANGED <<vdoVars, cfgVars, concVars, heap, answer, io>>

(***************************************************************************)
(* startRestoringMasterIndex_006(masterIndex, bufferedReaders, numReaders). *)
(* A reader is what its stream holds where the header is read:             *)
(*   status     "ok": it supplies sizeof(struct mi006_data) bytes;         *)
(*              "short": it does not; "nomem": make_buffer fails           *)
(*   magic      the first MAGIC_SIZE bytes                                 *)
(*   rateBytes  the next four bytes                                        *)
(***************************************************************************)
READ_ERROR == "READ_ERROR"

\* Magics that differ from MAGIC_MI_START in one byte, one per position.
BadMagics == {[MAGIC_MI_START EXCEPT ![k] = "2"] : k \in 1 .. MAGIC_SIZE}

RateBytes == {<<r, 0, 0, 0>> : r \in 0 .. MaxRate}

Readers ==
  [status : {"ok"}, magic : {MAGIC_MI_START}, rateBytes : RateBytes]
  \cup [status : {"ok"}, magic : BadMagics, rateBytes : {<<1, 0, 0, 0>>}]
  \cup [status : {"short", "nomem"}, magic : {MAGIC_MI_START},
        rateBytes : {<<0, 0, 0, 0>>}]

GoodReaders ==
  {r \in Readers : r.status = "ok" /\ r.magic = MAGIC_MI_START}

RECURSIVE GoodReaderLists(_)
GoodReaderLists(n) ==
  IF n = 0 THEN {<<>>}
  ELSE {l \o <<r>> : l \in GoodReaderLists(n - 1), r \in GoodReaders}

\* Up to n readers, all with good headers but for the last.
ReaderListsTo(n) ==
  UNION {{l \o <<r>> : l \in GoodReaderLists(k - 1), r \in Readers} :
           k \in 1 .. n}

\* A reader that comes after a rejected one.
LaterReader ==
  [status |-> "ok", magic |-> MAGIC_MI_START, rateBytes |-> <<1, 0, 0, 0>>]

\* One reader per saved zone, up to MaxReaders of them: good headers up to
\* a last reader of any kind, or up to a rejected reader with one more
\* reader behind it.
ReaderLists ==
  {<<>>} \cup ReaderListsTo(MaxReaders)
  \cup {l \o <<LaterReader>> :
          l \in {m \in ReaderListsTo(MaxReaders - 1) :
                   m[Len(m)] \notin GoodReaders}}

\* get_uint32_le_from_buffer
get_uint32_le(bytes) ==
  bytes[1] + 256 * bytes[2] + 65536 * bytes[3] + 16777216 * bytes[4]

\* decodeMasterIndexHeader, lines 302-322, on a full buffer.
decodeMasterIndexHeader(reader) ==
  [magic |-> reader.magic, sparseSampleRate |-> get_uint32_le(reader.rateBytes)]

\* Line 373 comparing one byte less than MAGIC_SIZE.
magicMatches_short(header) ==
  SubSeq(header.magic, 1, MAGIC_SIZE - 1)
    = SubSeq(MAGIC_MI_START, 1, MAGIC_SIZE - 1)

\* Line 373: memcmp(header.magic, MAGIC_MI_START, MAGIC_SIZE) == 0.
magicMatches(header) ==
  SubSeq(header.magic, 1, MAGIC_SIZE) = SubSeq(MAGIC_MI_START, 1, MAGIC_SIZE)

\* Lines 378-387 with the rate taken from every header, not only the first.
restoreHeader_every(i, rate, header) ==
  [result |-> UDS_SUCCESS, rate |-> header.sparseSampleRate]

\* Lines 378-387: the first header's sample rate is taken, every other
\* header's must equal it.
restoreHeader(i, rate, header) ==
  IF i = 0
    THEN [result |-> UDS_SUCCESS, rate |-> header.sparseSampleRate]
  ELSE IF rate # header.sparseSampleRate
    THEN [result |-> UDS_CORRUPT_COMPONENT, rate |-> rate]
  ELSE [result |-> UDS_SUCCESS, rate |-> rate]

\* Lines 349-361 with a failed read reported as a corrupt component.
readHeader_corrupt(reader) ==
  IF reader.status = "nomem" THEN ENOMEM
  ELSE IF reader.status = "short" THEN UDS_CORRUPT_COMPONENT
  ELSE UDS_SUCCESS

\* Lines 349-361: make_buffer, then read_from_buffered_reader of
\* sizeof(struct mi006_data) bytes; a failure of either is returned as it
\* is.
readHeader(reader) ==
  IF reader.status = "nomem" THEN ENOMEM
  ELSE IF reader.status = "short" THEN READ_ERROR
  ELSE UDS_SUCCESS

\* Lines 348-388: the loop over the readers, from reader i (counted from 0)
\* with mi6->sparseSampleRate = rate: the result, the sample rate left in
\* the index, and one event per reader the loop got to: the sample rate of
\* a header with the right magic, or why the reader was rejected.
RECURSIVE restoreHeaders(_, _, _)
restoreHeaders(readers, i, rate) ==
  IF i >= Len(readers)
    THEN [result |-> UDS_SUCCESS, rate |-> rate, events |-> <<>>]
  ELSE LET reader == readers[i + 1]
           header == decodeMasterIndexHeader(reader)
           checked == restoreHeader(i, rate, header)
           rest == restoreHeaders(readers, i + 1, checked.rate)
           headerEvent == Event("header", "", header.sparseSampleRate)
       IN IF reader.status = "nomem"
            THEN [result |-> readHeader(reader), rate |-> rate,
                  events |-> <<Event("make_buffer fails", "", i)>>]
          ELSE IF reader.status = "short"
            THEN [result |-> readHeader(reader), rate |-> rate,
                  events |-> <<Event("read_from_buffered_reader fails",
                                     "", i)>>]
          ELSE IF ~magicMatches(header)
            THEN [result |-> UDS_CORRUPT_COMPONENT, rate |-> rate,
                  events |-> <<Event("bad magic", "", i)>>]
          ELSE IF checked.result # UDS_SUCCESS
            THEN [result |-> checked.result, rate |-> checked.rate,
                  events |-> <<headerEvent>>]
          ELSE [rest EXCEPT !.events = <<headerEvent>> \o @]

\* Lines 333-396.  nonHookResult and hookResult are what the sub-indices'
\* startRestoringMasterIndex returns.
startRestoringMasterIndex_006_outcome(readers, nonHookResult, hookResult) ==
  LET headers == restoreHeaders(readers, 0, sparseSampleRate)
  IN IF headers.result # UDS_SUCCESS
       THEN [result |-> headers.result, rate |-> headers.rate,
             events |-> headers.events]
     ELSE IF nonHookResult # UDS_SUCCESS
       THEN [result |-> nonHookResult, rate |-> headers.rate,
             events |-> headers.events
                        \o <<Event("startRestoringMasterIndex", miNonHook,
                                   Len(readers))>>]
     ELSE [result |-> hookResult, rate |-> headers.rate,
           events |-> headers.events
                      \o <<Event("startRestoringMasterIndex", miNonHook,
                                 Len(readers)),
                           Event("startRestoringMasterIndex", miHook,
                                 Len(readers))>>]

startRestoringMasterIndex_006(readers, nonHookResult, hookResult) ==
  /\ life.state = "live"
  /\ LET o == startRestoringMasterIndex_006_outcome(readers, nonHookResult,
                                                    hookResult)
     IN /\ sparseSampleRate' = o.rate
        /\ life' = [life EXCEPT !.op = "startRestoring",
                                !.config = NoConfig, !.split = NoSplit,
                                !.result = o.result, !.events = o.events]
  /\ out' = NoOut
  /\ UNCHANGED <<vdoVars, numZones, concVars, heap, answer>>

(***************************************************************************)
(* Calls of the classification through the method table, at a safe point.  *)
(* With a sample rate of zero the remainder of line 80 is a division by    *)
(* zero: the process dies.                                                 *)
(***************************************************************************)
call_isMasterIndexSample(name) ==
  /\ life.state = "live"
  /\ IF sparseSampleRate = 0
       THEN /\ life' = [life EXCEPT !.state = "crashed", !.op = "isSample",
                                    !.config = NoConfig, !.split = NoSplit,
                                    !.events = <<>>]
            /\ UNCHANGED answer
       ELSE /\ life' = [life EXCEPT !.op = "isSample", !.config = NoConfig,
                                    !.split = NoSplit,
                                    !.result = UDS_SUCCESS, !.events = <<>>]
            /\ answer' = [NoAnswer EXCEPT
                            !.op = "isSample", !.name = name,
                            !.rate = sparseSampleRate, !.zones = numZones,
                            !.sample = isMasterIndexSample_006(name)]
  /\ out' = NoOut
  /\ UNCHANGED <<vdoVars, cfgVars, concVars, heap, io>>

call_getMasterIndexZone(name) ==
  /\ life.state = "live"
  /\ IF sparseSampleRate = 0
       THEN /\ life' = [life EXCEPT !.state = "crashed", !.op = "getZone",
                                    !.config = NoConfig, !.split = NoSplit,
                                    !.events = <<>>]
            /\ UNCHANGED answer
       ELSE /\ life' = [life EXCEPT !.op = "getZone", !.config = NoConfig,
                                    !.split = NoSplit,
                                    !.result = UDS_SUCCESS, !.events = <<>>]
            /\ answer' = [NoAnswer EXCEPT
                            !.op = "getZone", !.name = name,
                            !.rate = sparseSampleRate, !.zones = numZones,
                            !.zone = getMasterIndexZone_006(name)]
  /\ out' = NoOut
  /\ UNCHANGED <<vdoVars, cfgVars, concVars, heap, io>>

\* freeMasterIndex(masterIndex) on a live index; the composite and its
\* fields are gone.
call_freeMasterIndex ==
  /\ life.state = "live"
  /\ heap' = freeMasterIndex_006(heap, numZones)
  /\ life' = [NoLife EXCEPT !.op = "free",
                          !.events = freeMasterIndex_006_events(heap, numZones)]
  /\ sparseSampleRate' = 0
  /\ numZones' = 0
  /\ out' = NoOut
  /\ answer' = NoAnswer
  /\ io' = [io EXCEPT !.args = NoArgs, !.content = EmptyContent]
  /\ UNCHANGED <<vdoVars, concVars>>

\* freeMasterIndex(NULL): line 112 skips everything.
call_freeMasterIndex_null ==
  /\ life.state = "none"
  /\ life' = [NoLife EXCEPT !.op = "free NULL"]
  /\ out' = NoOut
  /\ answer' = NoAnswer
  /\ UNCHANGED <<vdoVars, cfgVars, concVars, heap, io>>

(***************************************************************************)
(* Saving.  A buffered writer takes writes in order; a write is the bytes  *)
(* of the header, or the image a sub-index writes of what it holds.        *)
(***************************************************************************)
WRITE_ERROR == "WRITE_ERROR"

Write(by, data) == [by |-> by, data |-> data]

\* put_uint32_le_into_buffer
put_uint32_le(v) ==
  <<v % 256, (v \div 256) % 256, (v \div 65536) % 256,
    (v \div 16777216) % 256>>

\* Lines 164-179 with the sample rate put most significant byte first.
encodeMasterIndexHeader_big_endian(header) ==
  LET le == put_uint32_le(header.sparseSampleRate)
  IN SubSeq(header.magic, 1, MAGIC_SIZE) \o <<le[4], le[3], le[2], le[1]>>

\* encodeMasterIndexHeader, lines 164-179, into a buffer of
\* sizeof(struct mi006_data) bytes: the bytes the buffer holds.
encodeMasterIndexHeader(header) ==
  SubSeq(header.magic, 1, MAGIC_SIZE) \o put_uint32_le(header.sparseSampleRate)

\* What the header write of a save comes to.
HeaderWrites ==
  {"written", "make_buffer fails", "write_to_buffered_writer fails"}

\* startSavingMasterIndex of a sub-index: it writes its image of the zone.
subImage(sub) == Write(sub, <<io.content[sub]>>)

\* Lines 190-230 with the hook sub-index saved before the non-hook one.
startSavingMasterIndex_006_hook_first(zoneNumber, header, nonHookResult, hookResult) ==
  LET bytes == encodeMasterIndexHeader(
                 [magic |-> MAGIC_MI_START,
                  sparseSampleRate |-> sparseSampleRate])
  IN [result |-> IF nonHookResult # UDS_SUCCESS THEN nonHookResult
                 ELSE hookResult,
      writes |-> <<Write("header", bytes), subImage(miHook),
                   subImage(miNonHook)>>,
      events |-> <<Event("write_to_buffered_writer", "", Len(bytes)),
                   Event("startSavingMasterIndex", miHook, zoneNumber),
                   Event("startSavingMasterIndex", miNonHook, zoneNumber)>>]

\* Lines 190-230: the result, what was written to the zone's buffered
\* writer, and the calls made.  header is what the header write comes to;
\* nonHookResult and hookResult are what the sub-indices'
\* startSavingMasterIndex returns (a sub-index that fails writes nothing).
startSavingMasterIndex_006_outcome(zoneNumber, header, nonHookResult, hookResult) ==
  LET bytes == encodeMasterIndexHeader(
                 [magic |-> MAGIC_MI_START,
                  sparseSampleRate |-> sparseSampleRate])
      written == Event("write_to_buffered_writer", "", Len(bytes))
      start(sub) == Event("startSavingMasterIndex", sub, zoneNumber)
  IN IF header = "make_buffer fails"
       THEN [result |-> ENOMEM, writes |-> <<>>,
             events |-> <<Event("make_buffer fails", "", zoneNumber)>>]
     ELSE IF header = "write_to_buffered_writer fails"
       THEN [result |-> WRITE_ERROR, writes |-> <<>>,
             events |-> <<Event("write_to_buffered_writer fails", "",
                                zoneNumber)>>]
     ELSE IF nonHookResult # UDS_SUCCESS
       THEN [result |-> nonHookResult,
             writes |-> <<Write("header", bytes)>>,
             events |-> <<written, start(miNonHook)>>]
     ELSE IF hookResult # UDS_SUCCESS
       THEN [result |-> hookResult,
             writes |-> <<Write("header", bytes), subImage(miNonHook)>>,
             events |-> <<written, start(miNonHook), start(miHook)>>]
     ELSE [result |-> UDS_SUCCESS,
           writes |-> <<Write("header", bytes), subImage(miNonHook),
                        subImage(miHook)>>,
           events |-> <<written, start(miNonHook), start(miHook)>>]

\* The call leaves the index as it is; the zone's writer is a new one.
startSavingMasterIndex_006(zoneNumber, header, nonHookResult, hookResult) ==
  /\ life.state = "live"
  /\ zoneNumber \in Zones
  /\ LET o == startSavingMasterIndex_006_outcome(zoneNumber, header,
                                                 nonHookResult, hookResult)
     IN /\ life' = [life EXCEPT !.op = "startSaving", !.config = NoConfig,
                                !.split = NoSplit,
                                !.result = o.result, !.events = o.events]
        /\ io' = [io EXCEPT
                    !.args = [NoArgs EXCEPT
                                !.zoneNumber = zoneNumber, !.header = header,
                                !.results = <<nonHookResult, hookResult>>],
                    !.stream[zoneNumber] =
                      IF o.result = UDS_SUCCESS
                        THEN [writes |-> o.writes, rate |-> sparseSampleRate,
                              content |-> io.content]
                      ELSE [NoStream EXCEPT !.writes = o.writes]]
  /\ out' = NoOut
  /\ UNCHANGED <<vdoVars, cfgVars, concVars, heap, answer>>

\* Lines 264-275 with the hook sub-index always finished.
finishSavingMasterIndex_006_both(zoneNumber, nonHookResult, hookResult) ==
  [result |-> IF nonHookResult = UDS_SUCCESS THEN hookResult
              ELSE nonHookResult,
   events |-> <<Event("finishSavingMasterIndex", miNonHook, zoneNumber),
                Event("finishSavingMasterIndex", miHook, zoneNumber)>>]

\* Lines 264-275.
finishSavingMasterIndex_006_outcome(zoneNumber, nonHookResult, hookResult) ==
  IF nonHookResult = UDS_SUCCESS
    THEN [result |-> hookResult,
          events |-> <<Event("finishSavingMasterIndex", miNonHook, zoneNumber),
                       Event("finishSavingMasterIndex", miHook, zoneNumber)>>]
  ELSE [result |-> nonHookResult,
        events |-> <<Event("finishSavingMasterIndex", miNonHook, zoneNumber)>>]

finishSavingMasterIndex_006(zoneNumber, nonHookResult, hookResult) ==
  /\ life.state = "live"
  /\ zoneNumber \in Zones
  /\ LET o == finishSavingMasterIndex_006_outcome(zoneNumber, nonHookResult,
                                                  hookResult)
     IN life' = [life EXCEPT !.op = "finishSaving", !.config = NoConfig,
                             !.split = NoSplit,
                             !.result = o.result, !.events = o.events]
  /\ io' = [io EXCEPT !.args = [NoArgs EXCEPT
                                  !.zoneNumber = zoneNumber,
                                  !.results = <<nonHookResult, hookResult>>]]
  /\ out' = NoOut
  /\ UNCHANGED <<vdoVars, cfgVars, concVars, heap, answer>>

\* Lines 287-299 returning the hook sub-index's result whenever it failed.
abortSavingMasterIndex_006_last(zoneNumber, nonHookResult, hookResult) ==
  [result |-> IF hookResult = UDS_SUCCESS THEN nonHookResult ELSE hookResult,
   events |-> <<Event("abortSavingMasterIndex", miNonHook, zoneNumber),
                Event("abortSavingMasterIndex", miHook, zoneNumber)>>]

\* Lines 287-299.
abortSavingMasterIndex_006_outcome(zoneNumber, nonHookResult, hookResult) ==
  [result |-> IF nonHookResult = UDS_SUCCESS THEN hookResult
              ELSE nonHookResult,
   events |-> <<Event("abortSavingMasterIndex", miNonHook, zoneNumber),
                Event("abortSavingMasterIndex", miHook, zoneNumber)>>]

abortSavingMasterIndex_006(zoneNumber, nonHookResult, hookResult) ==
  /\ life.state = "live"
  /\ zoneNumber \in Zones
  /\ LET o == abortSavingMasterIndex_006_outcome(zoneNumber, nonHookResult,
                                                 hookResult)
     IN life' = [life EXCEPT !.op = "abortSaving", !.config = NoConfig,
                             !.split = NoSplit,
                             !.result = o.result, !.events = o.events]
  /\ io' = [io EXCEPT !.args = [NoArgs EXCEPT
                                  !.zoneNumber = zoneNumber,
                                  !.results = <<nonHookResult, hookResult>>]]
  /\ out' = NoOut
  /\ UNCHANGED <<vdoVars, cfgVars, concVars, heap, answer>>

(***************************************************************************)
(* Restoring with the sub-index contents followed.                         *)
(***************************************************************************)
\* The reader of a saved stream, where the header is read: it supplies the
\* header's bytes when the stream starts with a write that long.
StreamReader(stream) ==
  IF stream.writes # <<>>
     /\ Len(stream.writes[1].data) >= sizeof_mi006_data
    THEN [status |-> "ok",
          magic |-> SubSeq(stream.writes[1].data, 1, MAGIC_SIZE),
          rateBytes |-> SubSeq(stream.writes[1].data, MAGIC_SIZE + 1,
                               sizeof_mi006_data)]
  ELSE [status |-> "short", magic |-> MAGIC_MI_START,
        rateBytes |-> <<0, 0, 0, 0>>]

\* One reader per zone of the index, over the zones' saved streams.
SavedReaders == [i \in 1 .. numZones |-> StreamReader(io.stream[i - 1])]

\* startRestoringMasterIndex of a sub-index from the saved streams, each
\* read on from its k-th write: the sub-index takes what the images hold
\* when every stream has an image of this sub-index there.
subRestore(sub, k) ==
  IF \A z \in Zones : /\ k > 0
                      /\ Len(io.stream[z].writes) >= k
                      /\ io.stream[z].writes[k].by = sub
    THEN [result |-> UDS_SUCCESS, content |-> io.stream[0].writes[k].data[1]]
  ELSE [result |-> SUB_ERROR, content |-> io.content[sub]]

\* The sub-indices a restore has started, by its events.
restoreStarted(events, sub) ==
  \E k \in 1 .. Len(events) :
    events[k].call = "startRestoringMasterIndex" /\ events[k].sub = sub

\* startRestoringMasterIndex_006 from readers of streams that were not
\* saved here: the streams of a filled index.
restoreFromReaders(readers, nonHookResult, hookResult) ==
  /\ \A z \in AllZones : io.stream[z] = NoStream
  /\ startRestoringMasterIndex_006(readers, nonHookResult, hookResult)
  /\ LET o == startRestoringMasterIndex_006_outcome(readers, nonHookResult,
                                                    hookResult)
         result == [sub \in SubIndexes |->
                      IF sub = miNonHook THEN nonHookResult ELSE hookResult]
     IN io' = [io EXCEPT
                 !.args = [NoArgs EXCEPT !.readers = readers],
                 !.content = [sub \in SubIndexes |->
                                IF /\ restoreStarted(o.events, sub)
                                   /\ result[sub] = UDS_SUCCESS
                                  THEN FullContent[sub] ELSE @[sub]]]

\* Where in the saved streams a sub-index reads when a restore starts it:
\* after the header and after the images the sub-indices started before it
\* have read (0 when the restore does not get to it).
readsAt(sub) ==
  LET o == startRestoringMasterIndex_006_outcome(SavedReaders, UDS_SUCCESS,
                                                 UDS_SUCCESS)
      calls == SelectSeq(o.events,
                         LAMBDA e : e.call = "startRestoringMasterIndex")
  IN IF \E k \in 1 .. Len(calls) : calls[k].sub = sub
       THEN 1 + CHOOSE k \in 1 .. Len(calls) : calls[k].sub = sub
     ELSE 0

\* startRestoringMasterIndex_006 from the saved streams of the index's
\* zones.
restoreFromSaved ==
  LET nonHook == subRestore(miNonHook, readsAt(miNonHook))
      hook == subRestore(miHook, readsAt(miHook))
      restored == [sub \in SubIndexes |->
                     IF sub = miNonHook THEN nonHook ELSE hook]
      o == startRestoringMasterIndex_006_outcome(SavedReaders, nonHook.result,
                                                 hook.result)
  IN /\ startRestoringMasterIndex_006(SavedReaders, nonHook.result,
                                      hook.result)
     /\ io' = [io EXCEPT
                 !.args = [NoArgs EXCEPT !.readers = SavedReaders],
                 !.content = [sub \in SubIndexes |->
                                IF restoreStarted(o.events, sub)
                                  THEN restored[sub].content ELSE @[sub]]]

(***************************************************************************)
(* The operations that only ask the two sub-indices.                       *)
(***************************************************************************)
\* Lines 243-251 and 407-415 with || in place of &&.
bothDone_either(call, n, nonHookDone, hookDone) ==
  [done |-> nonHookDone \/ hookDone,
   events |-> IF nonHookDone THEN <<Event(call, miNonHook, n)>>
              ELSE <<Event(call, miNonHook, n), Event(call, miHook, n)>>]

\* The expression of lines 249-250 and of lines 413-414: the non-hook index
\* is asked, and the hook index when the non-hook index says done.
bothDone(call, n, nonHookDone, hookDone) ==
  [done |-> nonHookDone /\ hookDone,
   events |-> IF nonHookDone
                THEN <<Event(call, miNonHook, n), Event(call, miHook, n)>>
              ELSE <<Event(call, miNonHook, n)>>]

\* A query leaves the index, its mutexes and its streams as they are.
query(op, events, args) ==
  /\ life.state = "live"
  /\ life' = [life EXCEPT !.op = op, !.config = NoConfig, !.split = NoSplit,
                          !.result = UDS_SUCCESS, !.events = events]
  /\ io' = [io EXCEPT !.args = args]
  /\ out' = NoOut
  /\ UNCHANGED <<vdoVars, cfgVars, concVars, heap, answer>>

\* Lines 243-251; nonHookDone and hookDone are what the sub-indices'
\* isSavingMasterIndexDone answers for the zone.
isSavingMasterIndexDone_006(zoneNumber, nonHookDone, hookDone) ==
  /\ zoneNumber \in Zones
  /\ LET o == bothDone("isSavingMasterIndexDone", zoneNumber, nonHookDone,
                       hookDone)
     IN query("isSavingDone", o.events,
              [NoArgs EXCEPT !.zoneNumber = zoneNumber,
                             !.reports = <<nonHookDone, hookDone>>,
                             !.reply.done = o.done])

\* Lines 407-415.
isRestoringMasterIndexDone_006(nonHookDone, hookDone) ==
  LET o == bothDone("isRestoringMasterIndexDone", 0, nonHookDone, hookDone)
  IN query("isRestoringDone", o.events,
           [NoArgs EXCEPT !.reports = <<nonHookDone, hookDone>>,
                          !.reply.done = o.done])

\* Lines 427-440 with the delta list offered to both sub-indices.
restoreDeltaListToMasterIndex_006_both(index, nonHookResult, hookResult) ==
  [result |-> IF nonHookResult # UDS_SUCCESS THEN hookResult
              ELSE nonHookResult,
   events |-> <<Event("restoreDeltaListToMasterIndex", miNonHook, index),
                Event("restoreDeltaListToMasterIndex", miHook, index)>>]

\* Lines 427-440: the result and the calls made.  index is dlsi->index;
\* nonHookResult and hookResult are what the sub-indices'
\* restoreDeltaListToMasterIndex returns for the list.
restoreDeltaListToMasterIndex_006_outcome(index, nonHookResult, hookResult) ==
  IF nonHookResult # UDS_SUCCESS
    THEN [result |-> hookResult,
          events |-> <<Event("restoreDeltaListToMasterIndex", miNonHook,
                             index),
                       Event("restoreDeltaListToMasterIndex", miHook,
                             index)>>]
  ELSE [result |-> nonHookResult,
        events |-> <<Event("restoreDeltaListToMasterIndex", miNonHook,
                           index)>>]

restoreDeltaListToMasterIndex_006(index, nonHookResult, hookResult) ==
  /\ life.state = "live"
  /\ index \in 0 .. NumDeltaLists(miNonHook) - 1
  /\ LET o == restoreDeltaListToMasterIndex_006_outcome(index, nonHookResult,
                                                        hookResult)
     IN life' = [life EXCEPT !.op = "restoreDeltaList", !.config = NoConfig,
                             !.split = NoSplit,
                             !.result = o.result, !.events = o.events]
  /\ io' = [io EXCEPT !.args = [NoArgs EXCEPT
                                  !.zoneNumber = index,
                                  !.results = <<nonHookResult, hookResult>>]]
  /\ out' = NoOut
  /\ UNCHANGED <<vdoVars, cfgVars, concVars, heap, answer>>

\* ASSERT_WITH_ERROR_CODE(expr, code, ...): success when the expression
\* holds; otherwise the failure is logged and the code is the value.
ASSERT_WITH_ERROR_CODE(expr, code) == IF expr THEN UDS_SUCCESS ELSE code

\* The struct master_index_triage values a caller hands in.
Triages ==
  [isSample : {TRUE}, inSampledChapter : BOOLEAN, zone : AllZones]

\* Lines 565-575 handing the lookup to the hook index, as
\* lookupMasterIndexName_006 does at line 545.
lookupMasterIndexSampledName_006_delegated(name, triage) ==
  [result |-> UDS_SUCCESS,
   triage |-> [triage EXCEPT !.inSampledChapter = TRUE],
   events |-> <<Event("lookupMasterIndexSampledName", miHook, triage.zone)>>]

\* Lines 565-575: every parameter is unused; the result is the failed
\* assertion's code.
lookupMasterIndexSampledName_006_outcome(name, triage) ==
  [result |-> ASSERT_WITH_ERROR_CODE(FALSE, UDS_BAD_STATE),
   triage |-> triage,
   events |-> <<>>]

lookupMasterIndexSampledName_006(name, triage) ==
  /\ life.state = "live"
  /\ LET o == lookupMasterIndexSampledName_006_outcome(name, triage)
     IN /\ life' = [life EXCEPT !.op = "lookupSampledName",
                                !.config = NoConfig, !.split = NoSplit,
                                !.result = o.result, !.events = o.events]
        /\ io' = [io EXCEPT !.args = [NoArgs EXCEPT
                                        !.name = name, !.triage = triage,
                                        !.reply.triage = o.triage]]
  /\ out' = NoOut
  /\ UNCHANGED <<vdoVars, cfgVars, concVars, heap, answer>>

\* What a sub-index reports: a record count in a struct
\* master_index_stats, a number of bytes of memory.
Reports == 0 .. MaxReport

\* Lines 661-671 with the caller's sparse statistics passed to the hook
\* index as its sparse portion.
getMasterIndexStats_006_outcome_sparse_portion(nonHookStats, hookStats) ==
  [dense |-> nonHookStats.dense,
   sparse |-> hookStats.sparse,
   dummyStats |-> hookStats.dense,
   events |-> <<Event("getMasterIndexStats", miNonHook, 0),
                Event("getMasterIndexStats", miHook, 0)>>]

\* Lines 661-671.  A sub-index's getMasterIndexStats writes the struct it
\* is given for its dense portion and the one for its sparse portion:
\* nonHookStats and hookStats are what the two sub-indices write.  The
\* caller's dense is the non-hook index's dense portion (line 669), the
\* caller's sparse the hook index's dense portion (line 670); dummyStats
\* takes both sparse portions.
getMasterIndexStats_006_outcome(nonHookStats, hookStats) ==
  [dense |-> nonHookStats.dense,
   sparse |-> hookStats.dense,
   dummyStats |-> hookStats.sparse,
   events |-> <<Event("getMasterIndexStats", miNonHook, 0),
                Event("getMasterIndexStats", miHook, 0)>>]

getMasterIndexStats_006(nonHookStats, hookStats) ==
  LET o == getMasterIndexStats_006_outcome(nonHookStats, hookStats)
  IN query("getStats", o.events,
           [NoArgs EXCEPT
              !.reports = <<nonHookStats.dense, nonHookStats.sparse,
                            hookStats.dense, hookStats.sparse>>,
              !.reply.dense = o.dense, !.reply.sparse = o.sparse])

\* Lines 641-649 with the hook index's memory left out.
getMasterIndexMemoryUsed_006_outcome_dense_only(nonHookUsed, hookUsed) ==
  [used |-> nonHookUsed,
   events |-> <<Event("getMasterIndexMemoryUsed", miNonHook, 0)>>]

\* Lines 641-649.
getMasterIndexMemoryUsed_006_outcome(nonHookUsed, hookUsed) ==
  [used |-> nonHookUsed + hookUsed,
   events |-> <<Event("getMasterIndexMemoryUsed", miNonHook, 0),
                Event("getMasterIndexMemoryUsed", miHook, 0)>>]

getMasterIndexMemoryUsed_006(nonHookUsed, hookUsed) ==
  LET o == getMasterIndexMemoryUsed_006_outcome(nonHookUsed, hookUsed)
  IN query("getMemoryUsed", o.events,
           [NoArgs EXCEPT !.reports = <<nonHookUsed, hookUsed>>,
                          !.reply.used = o.used])

(***************************************************************************)
(* Spec: one caller, at safe points.                                       *)
(***************************************************************************)
Init ==
  /\ Live(0, 0)
  /\ life = NoLife
  /\ heap = NoHeap
  /\ out = NoOut
  /\ answer = NoAnswer
  /\ io = NoIo
  /\ NoVdo

\* What the two sub-index calls of one operation return, in the order the
\* operation makes them; the second is not made when the first fails.
SubResults ==
  {<<UDS_SUCCESS, UDS_SUCCESS>>, <<SUB_ERROR, UDS_SUCCESS>>,
   <<UDS_SUCCESS, SUB_ERROR>>}

\* What the two sub-index calls of a finish or an abort return: each its own
\* error when it fails.
SaveResults == {UDS_SUCCESS, SUB_ERROR} \X {UDS_SUCCESS, ENOMEM}

Next ==
  \/ \E config \in Configurations, zones \in 1 .. MaxZones :
       \E fail \in Failures(zones) : makeMasterIndex006(config, zones, fail)
  \/ \E config \in Configurations, r \in SubResults :
       computeMasterIndexSaveBytes006(config, r[1], r[2])
  \/ \E readers \in ReaderLists, r \in SubResults :
       startRestoringMasterIndex_006(readers, r[1], r[2])
       /\ UNCHANGED io
  \/ \E name \in Names : call_isMasterIndexSample(name)
  \/ \E name \in Names : call_getMasterIndexZone(name)
  \/ call_freeMasterIndex
  \/ call_freeMasterIndex_null

Spec == Init /\ [][Next]_vars

(***************************************************************************)
(* SpecPersist: one caller saving a filled index zone by zone, freeing it, *)
(* making it again and restoring it.                                       *)
(***************************************************************************)
\* The configurations an index is made again from: saving and restoring
\* do not look at the geometry.
PersistConfigurations ==
  {config \in Configurations :
     /\ config.geometry.sparse_chapters_per_volume = 1
     /\ config.geometry.records_per_chapter = MaxRecordsPerChapter}

InitPersist ==
  /\ \E rate \in 1 .. MaxRate, zones \in 1 .. MaxZones :
       /\ Live(rate, zones)
       /\ life = [NoLife EXCEPT !.state = "live",
                                !.made = [rate |-> rate, zones |-> zones]]
       /\ heap = LiveHeap(zones)
  /\ out = [NoOut EXCEPT !.masterIndex = "set"]
  /\ answer = NoAnswer
  /\ io = [NoIo EXCEPT !.content = FullContent]
  /\ NoVdo

NextPersist ==
  \/ \E zoneNumber \in AllZones, header \in HeaderWrites, r \in SubResults :
       startSavingMasterIndex_006(zoneNumber, header, r[1], r[2])
  \/ \E zoneNumber \in AllZones, r \in SaveResults :
       finishSavingMasterIndex_006(zoneNumber, r[1], r[2])
  \/ \E zoneNumber \in AllZones, r \in SaveResults :
       abortSavingMasterIndex_006(zoneNumber, r[1], r[2])
  \/ \E readers \in ReaderLists, r \in SubResults :
       restoreFromReaders(readers, r[1], r[2])
  \/ restoreFromSaved
  \/ call_freeMasterIndex
  \/ \E config \in PersistConfigurations, zones \in 1 .. MaxZones :
       makeMasterIndex006(config, zones, NoFailure)

SpecPersist == InitPersist /\ [][NextPersist]_vars

(***************************************************************************)
(* SpecOps: a filled index in use.  Either its zone threads look names up  *)
(* in it, or, with the threads quiescent, one caller saves it, restores it *)
(* from one reader of a stream saved at its own sample rate, and asks      *)
(* about it.                                                               *)
(***************************************************************************)
Quiescent ==
  \A t \in Threads : pc[t] = "idle" /\ loc[t] = NoCall /\ record[t] = NoRecord

NextOps ==
  \/ \E zoneNumber \in AllZones, header \in HeaderWrites, r \in SaveResults :
       Quiescent /\ startSavingMasterIndex_006(zoneNumber, header, r[1], r[2])
  \/ \E zoneNumber \in AllZones, r \in SaveResults :
       Quiescent /\ finishSavingMasterIndex_006(zoneNumber, r[1], r[2])
  \/ \E zoneNumber \in AllZones, r \in SaveResults :
       Quiescent /\ abortSavingMasterIndex_006(zoneNumber, r[1], r[2])
  \/ \E zoneNumber \in AllZones, d \in BOOLEAN \X BOOLEAN :
       Quiescent /\ isSavingMasterIndexDone_006(zoneNumber, d[1], d[2])
  \/ \E d \in BOOLEAN \X BOOLEAN :
       Quiescent /\ isRestoringMasterIndexDone_006(d[1], d[2])
  \/ \E index \in 0 .. 2 * MaxZones - 1, r \in SaveResults :
       Quiescent /\ restoreDeltaListToMasterIndex_006(index, r[1], r[2])
  \/ \E name \in Names, triage \in Triages :
       Quiescent /\ lookupMasterIndexSampledName_006(name, triage)
  \/ \E nonHookStats, hookStats \in [dense : Reports, sparse : Reports] :
       Quiescent /\ getMasterIndexStats_006(nonHookStats, hookStats)
  \/ \E nonHookUsed, hookUsed \in Reports :
       Quiescent /\ getMasterIndexMemoryUsed_006(nonHookUsed, hookUsed)
  \/ \E readers \in ReaderListsTo(1), r \in SaveResults :
       /\ Quiescent
       /\ startRestoringMasterIndex_006(readers, r[1], r[2])
       /\ sparseSampleRate' = sparseSampleRate
       /\ io' = [io EXCEPT !.args = [NoArgs EXCEPT !.results = r]]
  \/ \E t \in Threads, name \in Names :
       life.op = "none" /\ lookupMasterIndexName_006_begin(t, name)
  \/ \E t \in Threads : lookupMasterIndexName_006_lock(t)
  \/ \E t \in Threads : lookupMasterIndexName_006_lookup(t)
  \/ \E t \in Threads : lookupMasterIndexName_006_unlock(t)
  \/ \E t \in Threads, name \in Names :
       life.op = "none" /\ getMasterIndexRecord_006_begin(t, name)
  \/ \E t \in Threads : getMasterIndexRecord_006_lock(t)
  \/ \E t \in Threads : getMasterIndexRecord_006_lookup(t)
  \/ \E t \in Threads : getMasterIndexRecord_006_unlock(t)
  \/ \E t \in Threads : getMasterIndexRecord_006_dense(t)

SpecOps == InitPersist /\ [][NextOps]_vars

(***************************************************************************)
(* SpecOpen: one thread sets the open chapter of the whole index, again    *)
(* and again, while the others look names up.                              *)
(***************************************************************************)
NextOpen ==
  \/ \E v \in 1 .. MaxChapter :
       setMasterIndexOpenChapter_006_begin(Dispatcher, v)
  \/ \E t \in Threads : setMasterIndexZoneOpenChapter_006_dense(t)
  \/ \E t \in Threads : setMasterIndexZoneOpenChapter_006_lock(t)
  \/ \E t \in Threads : setMasterIndexZoneOpenChapter_006_hook(t)
  \/ \E t \in Threads : setMasterIndexZoneOpenChapter_006_hook_done(t)
  \/ \E t \in Threads : setMasterIndexZoneOpenChapter_006_unlock(t)
  \/ \E t \in Threads : setMasterIndexOpenChapter_006_next(t)
  \/ \E t \in Threads \ {Dispatcher}, name \in Names :
       lookupMasterIndexName_006_begin(t, name)
  \/ \E t \in Threads : lookupMasterIndexName_006_lock(t)
  \/ \E t \in Threads : lookupMasterIndexName_006_lookup(t)
  \/ \E t \in Threads : lookupMasterIndexName_006_unlock(t)

SpecOpen == InitConc /\ [][NextOpen]_vars

(***************************************************************************)
(* SpecSplit: splitConfiguration006 on its own, for configurations of any  *)
(* geometry: more sparse chapters than chapters, a sample rate above the    *)
(* records of a chapter, no chapters, no records.                          *)
(***************************************************************************)
SplitConfigurations ==
  [sparse_sample_rate : 0 .. MaxRate + 1,
   geometry : [chapters_per_volume : 0 .. MaxChaptersPerVolume,
               sparse_chapters_per_volume : 0 .. MaxChaptersPerVolume + 1,
               records_per_chapter : 0 .. MaxRecordsPerChapter]]

\* splitConfiguration006(config, &split), as makeMasterIndex006 (line 758)
\* and computeMasterIndexSaveBytes006 (line 732) call it.
call_splitConfiguration006(config) ==
  /\ life.state = "none"
  /\ LET split == splitConfiguration006(config)
     IN life' = [NoLife EXCEPT !.op = "split", !.config = config,
                              !.split = split, !.result = split.result]
  /\ UNCHANGED <<vdoVars, cfgVars, concVars, heap, out, answer, io>>

NextSplit ==
  \E config \in SplitConfigurations : call_splitConfiguration006(config)

SpecSplit == Init /\ [][NextSplit]_vars

(***************************************************************************)
(* SpecVio: one metadata vio, launched and completed again and again       *)
(* (src/vdo/vio.c).  The completion's own functions are those of           *)
(* completion.c.                                                           *)
(***************************************************************************)
\* reset_completion: no result, not complete.
reset_completion(completion) ==
  [completion EXCEPT !.result = VDO_SUCCESS, !.complete = FALSE]

\* setCompletionResult: the first error stays.
setCompletionResult(completion, result) ==
  IF completion.result = VDO_SUCCESS
    THEN [completion EXCEPT !.result = result]
    ELSE completion

\* runCallback: the function a completion runs, its error handler when it
\* has a result other than success and an error handler, else its callback.
runCallback(completion) ==
  IF completion.result # VDO_SUCCESS /\ completion.error_handler # NULL
    THEN completion.error_handler
    ELSE completion.callback

\* One entry of vio.events: the function entered, and the completion's
\* handlers and the error statistics on entry.
VioEvent(run, v) ==
  [run |-> run, callback |-> v.completion.callback,
   error_handler |-> v.completion.error_handler,
   error_stats |-> v.error_stats]

Entered(run, v) == [v EXCEPT !.events = Append(@, VioEvent(run, v))]

\* complete_completion: the completion is complete, and when it has a
\* callback the function of runCallback is run: one of the callers'.
complete_completion(v) ==
  LET completed == [Entered(<<"complete_completion", 0>>, v) EXCEPT
                      !.completion.complete = TRUE]
  IN IF v.completion.callback # NULL
       THEN Entered(runCallback(completed.completion), completed)
       ELSE completed

\* vio_done_callback, lines 64-70.
vio_done_callback(v) ==
  LET entered == Entered(vio_done_callback_action, v)
  IN complete_completion(
       [entered EXCEPT !.completion.callback = v.callback,
                       !.completion.error_handler = v.error_handler])

\* update_vio_error_stats, lines 116-146: a counter for two of the results,
\* a rate-limited line of the log for all but VDO_READ_ONLY.
update_vio_error_stats(v) ==
  LET entered == Entered(<<"update_vio_error_stats", 0>>, v)
  IN CASE v.completion.result = VDO_READ_ONLY ->
            [entered EXCEPT !.error_stats.read_only_error_count = @ + 1]
       [] v.completion.result = VDO_NO_SPACE ->
            [entered EXCEPT !.error_stats.no_space_error_count = @ + 1]
       [] OTHER -> entered

\* handle_metadata_io_error, lines 154-165.
handle_metadata_io_error(v) ==
  vio_done_callback(
    update_vio_error_stats(Entered(handle_metadata_io_error_action, v)))

\* kvdo_handle_vio_callback, lines 229-233: runCallback on the vio's
\* completion.
kvdo_handle_vio_callback(v) ==
  LET run == runCallback(v.completion)
  IN CASE run = vio_done_callback_action -> vio_done_callback(v)
       [] run = handle_metadata_io_error_action -> handle_metadata_io_error(v)
       [] OTHER -> Entered(run, v)

\* launch_metadata_vio, lines 168-186; the vio's owner launches it when it
\* is not with the layer.
launch_metadata_vio_first_handlers(physical, callback, error_handler, operation) ==
  /\ ~vio.submitted
  /\ Len(vio.launched) < MaxLaunches
  /\ vio' = [vio EXCEPT
               !.operation = operation,
               !.physical = physical,
               !.callback = IF @ = NULL THEN callback ELSE @,
               !.error_handler = IF vio.callback = NULL
                                   THEN error_handler ELSE @,
               !.completion = [reset_completion(@) EXCEPT
                  !.callback = vio_done_callback_action,
                  !.error_handler = handle_metadata_io_error_action],
               !.submitted = TRUE,
               !.launched = Append(@, [callback |-> callback,
                                       error_handler |-> error_handler]),
               !.events = <<>>]
  /\ UNCHANGED <<cfgVars, concVars, lifeVars, bio_stats, layer>>

launch_metadata_vio(physical, callback, error_handler, operation) ==
  /\ ~vio.submitted
  /\ Len(vio.launched) < MaxLaunches
  /\ vio' = [vio EXCEPT
               !.operation = operation,
               !.physical = physical,
               !.callback = callback,
               !.error_handler = error_handler,
               !.completion = [reset_completion(@) EXCEPT
                  !.callback = vio_done_callback_action,
                  !.error_handler = handle_metadata_io_error_action],
               !.submitted = TRUE,
               !.launched = Append(@, [callback |-> callback,
                                       error_handler |-> error_handler]),
               !.events = <<>>]
  /\ UNCHANGED <<cfgVars, concVars, lifeVars, bio_stats, layer>>

\* kvdo_continue_kvio, lines 245-251, when the layer is done with the I/O
\* of the vio, with success or an error: the error is set as the
\* completion's result and the work item runs kvdo_handle_vio_callback.
kvdo_continue_kvio(error) ==
  /\ vio.submitted
  /\ LET arrived == [vio EXCEPT
                       !.submitted = FALSE,
                       !.events = <<>>,
                       !.completion = IF error # VDO_SUCCESS
                                        THEN setCompletionResult(@, error)
                                        ELSE @]
     IN vio' = kvdo_handle_vio_callback(arrived)
  /\ UNCHANGED <<cfgVars, concVars, lifeVars, bio_stats, layer>>

NextVio ==
  \/ \E physical \in 0 .. MaxPhysical, callback \in CallerActions,
        error_handler \in CallerActions \cup {NULL},
        operation \in {VIO_READ, VIO_WRITE} :
       launch_metadata_vio(physical, callback, error_handler, operation)
  \/ \E error \in {VDO_SUCCESS, VDO_READ_ONLY, VDO_NO_SPACE, EIO} :
       kvdo_continue_kvio(error)

SpecVio == Init /\ [][NextVio]_vars

(***************************************************************************)
(* SpecBios: vdo_count_bios on one struct atomic_bio_stats, bio after bio  *)
(* (bio.c, src/unnamed/part_000 lines 887-921).                            *)
(***************************************************************************)
Bios ==
  [bi_opf : [op : {REQ_OP_READ, REQ_OP_WRITE, REQ_OP_FLUSH, REQ_OP_DISCARD},
             flags : SUBSET {REQ_PREFLUSH, REQ_FUA}],
   bi_iter : [bi_size : 0 .. MaxBioSize]]

bio_op(bio) == bio.bi_opf.op

atomic64_inc(stats, counter) == [stats EXCEPT ![counter] = @ + 1]

\* The statistics after vdo_count_bios(bio_stats, bio), lines 887-921.
vdo_count_bios_no_return(stats, bio) ==
  LET empty == IF REQ_PREFLUSH \in bio.bi_opf.flags
                    /\ bio.bi_iter.bi_size = 0
                 THEN atomic64_inc(atomic64_inc(stats, "empty_flush"),
                                   "flush")
                 ELSE stats
      op == CASE bio_op(bio) = REQ_OP_WRITE -> atomic64_inc(empty, "write")
              [] bio_op(bio) = REQ_OP_READ -> atomic64_inc(empty, "read")
              [] bio_op(bio) = REQ_OP_DISCARD ->
                   atomic64_inc(empty, "discard")
              [] OTHER -> [empty EXCEPT !.logged = TRUE]
      flush == IF REQ_PREFLUSH \in bio.bi_opf.flags
                 THEN atomic64_inc(op, "flush")
                 ELSE op
  IN IF REQ_FUA \in bio.bi_opf.flags
       THEN atomic64_inc(flush, "fua")
       ELSE flush

vdo_count_bios_outcome(stats, bio) ==
  IF REQ_PREFLUSH \in bio.bi_opf.flags /\ bio.bi_iter.bi_size = 0
    THEN atomic64_inc(atomic64_inc(stats, "empty_flush"), "flush")
    ELSE LET op == CASE bio_op(bio) = REQ_OP_WRITE ->
                          atomic64_inc(stats, "write")
                     [] bio_op(bio) = REQ_OP_READ ->
                          atomic64_inc(stats, "read")
                     [] bio_op(bio) = REQ_OP_DISCARD ->
                          atomic64_inc(stats, "discard")
                     [] OTHER -> [stats EXCEPT !.logged = TRUE]
             flush == IF REQ_PREFLUSH \in bio.bi_opf.flags
                        THEN atomic64_inc(op, "flush")
                        ELSE op
         IN IF REQ_FUA \in bio.bi_opf.flags
              THEN atomic64_inc(flush, "fua")
              ELSE flush

vdo_count_bios(bio) ==
  /\ bio_stats.counted < MaxBios
  /\ bio_stats' =
       [vdo_count_bios_outcome([bio_stats EXCEPT !.logged = FALSE], bio)
          EXCEPT !.bio = bio, !.counted = @ + 1]
  /\ UNCHANGED <<cfgVars, concVars, lifeVars, vio, layer>>

NextBios == \E bio \in Bios : vdo_count_bios(bio)

SpecBios == Init /\ [][NextBios]_vars

(***************************************************************************)
(* SpecCreate: one caller creates metadata vios on the kernel layer and    *)
(* frees them (src/vdo/vio.c, the part that is kvio.c).                    *)
(***************************************************************************)
VIO_TYPE_UNINITIALIZED == "VIO_TYPE_UNINITIALIZED"
VIO_TYPE_DATA == "VIO_TYPE_DATA"
VIO_TYPE_COMPRESSED_BLOCK == "VIO_TYPE_COMPRESSED_BLOCK"
VIO_TYPE_BLOCK_MAP == "VIO_TYPE_BLOCK_MAP"
VIO_TYPE_SUPER_BLOCK == "VIO_TYPE_SUPER_BLOCK"

VioTypes ==
  {VIO_TYPE_UNINITIALIZED, VIO_TYPE_DATA, VIO_TYPE_COMPRESSED_BLOCK,
   VIO_TYPE_BLOCK_MAP, VIO_TYPE_SUPER_BLOCK}

\* isMetadataVIOType: initialized, and neither a data vio nor a compressed
\* write.
isMetadataVIOType(vio_type) ==
  vio_type \notin
    {VIO_TYPE_UNINITIALIZED, VIO_TYPE_DATA, VIO_TYPE_COMPRESSED_BLOCK}

VIO_PRIORITY_METADATA == "VIO_PRIORITY_METADATA"
VIO_PRIORITY_HIGH == "VIO_PRIORITY_HIGH"

\* ASSERT(expr, ...): success when the expression holds; otherwise the
\* failure is logged and UDS_ASSERTION_FAILED is the value.
UDS_ASSERTION_FAILED == "UDS_ASSERTION_FAILED"
ASSERT(expr) == IF expr THEN VDO_SUCCESS ELSE UDS_ASSERTION_FAILED

\* One entry of layer.events: the call, the number of the object and the
\* call's result.
LayerEvent(call, id, result) == [call |-> call, id |-> id, result |-> result]

Did(l, call, id, result) ==
  [l EXCEPT !.events = Append(@, LayerEvent(call, id, result))]

\* create_bio(layer, data, &bio): a new bio, or an error and nothing.
create_bio(l, id, result) ==
  IF result = VDO_SUCCESS
    THEN [Did(l, "create_bio", id, result) EXCEPT !.bios = @ \cup {id}]
    ELSE Did(l, "create_bio", id, result)

\* free_bio(bio, layer).
free_bio(l, id) ==
  [Did(l, "free_bio", id, VDO_SUCCESS) EXCEPT !.bios = @ \ {id}]

\* initialize_kvio, lines 428-459: the trace record when the layer records
\* and samples this vio (traced is then "allocated" or "failed", else
\* "none"); a failure to allocate it is logged and no more.
initialize_kvio(l, id, traced) ==
  CASE traced = "allocated" ->
         [Did(l, "ALLOCATE trace", id, VDO_SUCCESS) EXCEPT
            !.traces = @ \cup {id}]
    [] traced = "failed" -> Did(l, "ALLOCATE trace", id, ENOMEM)
    [] OTHER -> l

\* make_metadata_kvio, lines 482-509; result is that of its ALLOCATE.
make_metadata_kvio(l, id, result, traced) ==
  IF result # VDO_SUCCESS
    THEN Did(l, "ALLOCATE metadata_kvio", id, result)
    ELSE initialize_kvio(
           [Did(l, "ALLOCATE metadata_kvio", id, result) EXCEPT
              !.kvios = @ \cup {id}],
           id, traced)

\* kvdo_create_metadata_vio, lines 554-585.
kvdo_create_metadata_vio_outcome_leak(l, p, vio_type, priority, bio_result, kvio_result, traced) ==
  LET id == l.made + 1
      called == [l EXCEPT !.call = "kvdo_create_metadata_vio",
                          !.vio_type = vio_type, !.priority = priority,
                          !.events = <<>>]
      bio == create_bio(called, id, bio_result)
      kvio == make_metadata_kvio(bio, id, kvio_result, traced)
  IN CASE ASSERT(isMetadataVIOType(vio_type)) # VDO_SUCCESS ->
            [called EXCEPT !.result = UDS_ASSERTION_FAILED]
       [] OTHER ->
            IF bio_result # VDO_SUCCESS
              THEN [bio EXCEPT !.result = bio_result]
              ELSE IF kvio_result # VDO_SUCCESS
                     THEN [kvio EXCEPT !.result = kvio_result]
                     ELSE [kvio EXCEPT !.vio_ptr[p] = id, !.made = id,
                                       !.result = VDO_SUCCESS]

kvdo_create_metadata_vio_outcome(l, p, vio_type, priority, bio_result, kvio_result, traced) ==
  LET id == l.made + 1
      called == [l EXCEPT !.call = "kvdo_create_metadata_vio",
                          !.vio_type = vio_type, !.priority = priority,
                          !.events = <<>>]
      bio == create_bio(called, id, bio_result)
      kvio == make_metadata_kvio(bio, id, kvio_result, traced)
  IN CASE ASSERT(isMetadataVIOType(vio_type)) # VDO_SUCCESS ->
            [called EXCEPT !.result = UDS_ASSERTION_FAILED]
       [] OTHER ->
            IF bio_result # VDO_SUCCESS
              THEN [bio EXCEPT !.result = bio_result]
              ELSE IF kvio_result # VDO_SUCCESS
                     THEN [free_bio(kvio, id) EXCEPT !.result = kvio_result]
                     ELSE [kvio EXCEPT !.vio_ptr[p] = id, !.made = id,
                                       !.result = VDO_SUCCESS]

\* The caller asks for a vio with a pointer that holds none.
kvdo_create_metadata_vio(p, vio_type, priority, bio_result, kvio_result, traced) ==
  /\ layer.vio_ptr[p] \in {Unassigned, NoVioPtr}
  /\ layer.made < MaxVios
  /\ layer' = kvdo_create_metadata_vio_outcome(
                layer, p, vio_type, priority, bio_result, kvio_result,
                traced)
  /\ UNCHANGED <<cfgVars, concVars, lifeVars, vio, bio_stats>>

\* free_metadata_kvio, lines 281-285, which is free_kvio, lines 263-279, on
\* the kvio of one of the caller's vios; nothing to do for NULL.
free_metadata_kvio(p) ==
  /\ layer.vio_ptr[p] # Unassigned
  /\ LET id == layer.vio_ptr[p]
         called == [layer EXCEPT !.call = "free_metadata_kvio",
                                 !.vio_type = "none", !.priority = "none",
                                 !.result = VDO_SUCCESS, !.events = <<>>]
         trace == IF id \in called.traces
                    THEN [Did(called, "FREE trace", id, VDO_SUCCESS) EXCEPT
                            !.traces = @ \ {id}]
                    ELSE called
     IN layer' = IF id = NoVioPtr
                   THEN called
                   ELSE [Did(free_bio(trace, id), "FREE kvio", id,
                             VDO_SUCCESS) EXCEPT
                           !.kvios = @ \ {id}, !.vio_ptr[p] = NoVioPtr]
  /\ UNCHANGED <<cfgVars, concVars, lifeVars, vio, bio_stats>>

NextCreate ==
  \/ \E p \in 1 .. MaxVioPtrs, vio_type \in VioTypes,
        priority \in {VIO_PRIORITY_METADATA, VIO_PRIORITY_HIGH},
        bio_result \in {VDO_SUCCESS, ENOMEM},
        kvio_result \in {VDO_SUCCESS, ENOMEM},
        traced \in {"none", "allocated", "failed"} :
       kvdo_create_metadata_vio(p, vio_type, priority, bio_result,
                                kvio_result, traced)
  \/ \E p \in 1 .. MaxVioPtrs : free_metadata_kvio(p)

SpecCreate == Init /\ [][NextCreate]_vars

(***************************************************************************)
(* FairSpecConc: the scheduler runs every thread that can take a step      *)
(* inside a call, and the zone mutex is fair: a thread that can take the   *)
(* mutex again and again does get it.  Whether a thread starts another     *)
(* call is up to its caller.                                               *)
(***************************************************************************)
LockStep(t) ==
  \/ lookupMasterIndexName_006_lock(t)
  \/ setMasterIndexZoneOpenChapter_006_lock(t)
  \/ getMasterIndexRecord_006_lock(t)
  \/ mutateMasterIndexRecord_lock(t)

InCallStep(t) == pc[t] # "idle" /\ ThreadStep(t)

FairSpecConc ==
  /\ SpecConc
  /\ \A t \in AllThreads : WF_vars(InCallStep(t)) /\ SF_vars(LockStep(t))

(***************************************************************************)
(* Properties of the locking discipline (SpecConc).                        *)
(***************************************************************************)
Returned(t, op) == pc[t] = "idle" /\ loc[t].op = op
HoldsNoMutex(t) == \A z \in AllZones : hookMutex[z] # t
Sampled(name) == (extract_sampling_bytes(name) % sparseSampleRate) = 0
InSetZone(t) ==
  pc[t] \in {"sz_dense", "sz_lock", "sz_hook", "sz_hook2", "sz_unlock"}

HasPending(t, z) ==
  /\ record[t].pending
  /\ Sampled(record[t].name)
  /\ getMasterIndexZone(miHook, record[t].name) = z

C3_HookZoneExclusive ==
  \A z \in Zones :
    /\ Cardinality(InHook(z)) <= 1
    /\ \A t \in InHook(z) : hookMutex[z] = t
    /\ updating[miHook][z] =>
         \A t \in Threads : ~(pc[t] = "tr_lookup" /\ loc[t].zone = z)
    /\ \A t \in Threads : loc[t].op = "lookupName" => ~loc[t].torn

\* The open chapter update of a zone is half done while a triage lookup of
\* the same zone waits for the mutex.
C3_Witness ==
  \E t \in Threads, u \in Threads :
    /\ pc[t] = "sz_hook2" /\ updating[miHook][loc[t].zone]
    /\ pc[u] = "tr_lock" /\ loc[u].triage.zone = loc[t].zone

\* C4: lookupMasterIndexName_006 locks a mutex iff the name is a sample;
\* then it is the mutex of the name's zone, locked once, with one
\* sampled-name lookup under it, and released at return whatever the lookup
\* returned.  For a non-sample it locks nothing, makes no lookup and
\* returns success with isSample and inSampledChapter false.
C4_TriageLocksIffSample ==
  \A t \in Threads :
    Returned(t, "lookupName") =>
      /\ HoldsNoMutex(t)
      /\ loc[t].triage.isSample = Sampled(loc[t].name)
      /\ IF Sampled(loc[t].name)
           THEN /\ loc[t].locks = 1 /\ loc[t].lookups = 1 /\ loc[t].held
                /\ loc[t].mutex = getMasterIndexZone(miHook, loc[t].name)
                /\ loc[t].triage.zone = loc[t].mutex
           ELSE /\ loc[t].locks = 0 /\ loc[t].lookups = 0
                /\ loc[t].mutex = NoMutex
                /\ miHook \notin loc[t].touched
                /\ loc[t].result = UDS_SUCCESS
                /\ ~loc[t].triage.inSampledChapter

\* A triage of a sample whose lookup failed has returned, the mutex free.
C4_Witness ==
  \E t \in Threads :
    /\ Returned(t, "lookupName") /\ Sampled(loc[t].name)
    /\ loc[t].result = SUB_ERROR
    /\ hookMutex[loc[t].mutex] = NoThread

\* C5: no call blocks for ever: every thread inside a call returns from it
\* (also the zone thread that calls setMasterIndexZoneOpenChapter_006 or
\* lookupMasterIndexName_006 with the record of a sampled name in hand).
C5_EveryCallReturns ==
  \A t \in AllThreads : (pc[t] # "idle") ~> (pc[t] = "idle")

\* The zone thread, holding the record of a sample of its zone, is inside
\* the open chapter update under the mutex the record remembers.
C5_Witness ==
  \E t \in Threads :
    /\ record[t].pending /\ record[t].mutex = 0
    /\ pc[t] = "sz_hook" /\ loc[t].zone = 0 /\ hookMutex[0] = t

\* C6: when the zone thread is not inside an advance, both sub-indices have
\* the open chapter N of the N advances made; the hook index is never more
\* than the advance in progress behind; and a triage lookup reads a whole
\* chapter window: the hook index's current one, at most one advance behind
\* the non-hook index.
C6_AdvancesAndTriageGenerations ==
  \A z \in Zones :
    /\ openChapter[miNonHook][z] - openChapter[miHook][z] \in {0, 1}
    /\ (\A t \in Threads : ~(InSetZone(t) /\ loc[t].zone = z)) =>
         /\ openChapter[miNonHook][z] = advances[z]
         /\ openChapter[miHook][z] = advances[z]
    /\ \A t \in Threads :
         (pc[t] = "tr_unlock" /\ loc[t].zone = z) =>
           /\ ~loc[t].torn
           /\ loc[t].seen = openChapter[miHook][z]
           /\ loc[t].seen >= openChapter[miNonHook][z] - 1

\* A triage lookup overlapped the last advance and read the chapter before.
C6_Witness ==
  \E t \in Threads :
    /\ pc[t] = "tr_unlock"
    /\ loc[t].seen = MaxChapter - 1
    /\ openChapter[miNonHook][loc[t].zone] = MaxChapter

\* C9: getMasterIndexZone_006 (inside the triage) and
\* getMasterIndexRecord_006 call into exactly one sub-index: the hook index
\* for a sample, the non-hook index otherwise; so the triage reaches the
\* hook index only for samples.
RouteOf(name) == IF Sampled(name) THEN miHook ELSE miNonHook

C9_ExactlyOneSubIndex ==
  \A t \in Threads :
    loc[t].op \in {"lookupName", "getRecord"} =>
      /\ loc[t].touched \subseteq {RouteOf(loc[t].name)}
      /\ pc[t] = "idle" => loc[t].touched = {RouteOf(loc[t].name)}

C9_Witness ==
  \E t \in Threads, u \in Threads :
    /\ Returned(t, "getRecord") /\ ~Sampled(loc[t].name)
    /\ loc[t].touched = {miNonHook}
    /\ Returned(u, "lookupName") /\ Sampled(loc[u].name)
    /\ loc[u].touched = {miHook}

(***************************************************************************)
(* The life cycle: sample rate, zone count, classification, configuration. *)
(***************************************************************************)
\* The last call was startRestoringMasterIndex_006 and it read a first
\* header with the right magic.
FirstHeaderRead ==
  /\ life.op = "startRestoring"
  /\ life.events # <<>>
  /\ life.events[1].call = "header"

\* C7 (as amended): makeMasterIndex006 sets the sample rate and the zone
\* count to the values it is given; from then until the index is freed the
\* zone count never changes, and the sample rate changes only in
\* startRestoringMasterIndex_006, which sets it to the rate of the first
\* header as soon as that header has the right magic, whether or not the
\* restore then succeeds; every other call leaves it as it is.
C7_RateChangesOnlyByRestore ==
  [][/\ (life.state = "none" /\ life'.state = "live")
          => /\ sparseSampleRate' = life'.config.sparse_sample_rate
             /\ numZones' = life'.made.zones
     /\ (life.state = "live" /\ life'.state # "none")
          => /\ numZones' = numZones
             /\ numZones' = life'.made.zones
             /\ sparseSampleRate' =
                  IF FirstHeaderRead'
                    THEN life'.events[1].n ELSE sparseSampleRate]_vars

\* A restore that failed after its first header left the index with a
\* sample rate other than the one it was made with.
C7_Witness ==
  /\ life.state = "live"
  /\ FirstHeaderRead
  /\ life.result = UDS_CORRUPT_COMPONENT
  /\ Len(life.events) = 2
  /\ sparseSampleRate = life.events[1].n
  /\ sparseSampleRate # life.made.rate

\* C7 as stated: in every state of a live index the sample rate and the
\* zone count are those given at construction.
C7_Original ==
  life.state = "live"
    => /\ sparseSampleRate = life.made.rate
       /\ numZones = life.made.zones

SampledAt(name, rate) == (extract_sampling_bytes(name) % rate) = 0

\* The zone of a name in an index of `zones` zones whose sub-indices have
\* `lists` delta lists.
ZoneAt(name, lists, zones) ==
  ((extract_master_index_bytes(name) % lists) * zones) \div lists

\* C8 (as amended): whenever isSample(name) or getZone(name) returns, its
\* answer is determined by the name, the index's sample rate at the call and
\* its zone count: isSample(name) is true iff the name's sampling bytes mod
\* that rate are 0, getZone(name) is the name's zone in the hook index when
\* that holds and in the non-hook index otherwise, and a call agrees with
\* the previous one for the same name as long as the sample rate is the
\* same.  (The rate is the one startRestoring last adopted, so a restore can
\* change a name's classification and zone.)
C8_StableWhileRateUnchanged ==
  /\ [](answer.op # "none"
          => /\ answer.rate # 0
             /\ answer.zones = numZones
             /\ answer.op = "isSample"
                  => answer.sample = SampledAt(answer.name, answer.rate)
             /\ answer.op = "getZone"
                  => answer.zone =
                       IF SampledAt(answer.name, answer.rate)
                         THEN ZoneAt(answer.name, answer.zones, answer.zones)
                         ELSE ZoneAt(answer.name, 2 * answer.zones,
                                     answer.zones))
  /\ [][(/\ answer.op # "none"
         /\ answer'.op = answer.op
         /\ answer'.name = answer.name
         /\ answer'.rate = answer.rate)
          => answer' = answer]_vars

\* A sampled name was classified after a restore had changed the rate.
C8_Witness ==
  /\ answer.op = "isSample"
  /\ answer.sample
  /\ answer.rate = sparseSampleRate
  /\ answer.rate # life.made.rate
  /\ extract_sampling_bytes(answer.name) # 0

\* C8 as stated: for a fixed name, two calls of the same operation during
\* the lifetime of the index return the same value.
C8_Original ==
  [][(/\ answer.op # "none"
      /\ answer'.op = answer.op
      /\ answer'.name = answer.name)
       => /\ answer'.sample = answer.sample
          /\ answer'.zone = answer.zone]_vars

InvalidConfig(config) ==
  \/ config.sparse_sample_rate = 0
  \/ config.geometry.sparse_chapters_per_volume = 0

\* C10: makeMasterIndex006 and computeMasterIndexSaveBytes006, given a
\* configuration whose sparse sample rate or sparse chapter count is 0,
\* return UDS_INVALID_ARGUMENT having made no call at all (no allocation,
\* no mutex initialized, no sub-index made or sized) and having written
\* neither *masterIndex nor *numBytes; no index exists afterwards.
C10_InvalidConfigRejectedFirst ==
  (life.op \in {"make", "computeSaveBytes"} /\ InvalidConfig(life.config))
    => /\ life.result = UDS_INVALID_ARGUMENT
       /\ life.events = <<>>
       /\ out = NoOut
       /\ life.state = "none"
       /\ heap.mi6 # "live"
       /\ heap.zones # "live"
       /\ \A z \in AllZones : heap.mutex[z] # "init"
       /\ \A s \in SubIndexes : heap.sub[s] # "live"

\* makeMasterIndex006 was given a sample rate of 0 and a non-zero sparse
\* chapter count after an earlier index had been made and freed.
C10_Witness ==
  /\ life.op = "make"
  /\ life.config.sparse_sample_rate = 0
  /\ life.config.geometry.sparse_chapters_per_volume # 0
  /\ life.result = UDS_INVALID_ARGUMENT
  /\ heap.mi6 = "freed"

(***************************************************************************)
(* The split of a configuration.                                           *)
(***************************************************************************)
\* The last call split a configuration.
Splits == life.op \in {"make", "computeSaveBytes"}

\* C11: for every configuration splitConfiguration006 accepts, the hook
\* geometry has floor(records_per_chapter / sample rate) records per
\* chapter and all the chapters, the non-hook geometry has the remaining
\* records per chapter and the chapters that are not sparse, and both have
\* no sparse chapters.
C11_SplitArithmetic ==
  (Splits /\ ~InvalidConfig(life.config))
    => LET global == life.config.geometry
           hook == life.split.hookConfig.geometry
           nonHook == life.split.nonHookConfig.geometry
       IN /\ life.split.result = UDS_SUCCESS
          /\ hook.records_per_chapter * life.config.sparse_sample_rate
               <= global.records_per_chapter
          /\ global.records_per_chapter
               < (hook.records_per_chapter + 1)
                   * life.config.sparse_sample_rate
          /\ nonHook.records_per_chapter
               = global.records_per_chapter - hook.records_per_chapter
          /\ nonHook.chapters_per_volume
               = global.chapters_per_volume
                   - global.sparse_chapters_per_volume
          /\ hook.chapters_per_volume = global.chapters_per_volume
          /\ hook.sparse_chapters_per_volume = 0
          /\ nonHook.sparse_chapters_per_volume = 0

\* A split where the division rounds down and takes records from the
\* non-hook index: 2 records at a rate that leaves 1 for each.
C11_Witness ==
  /\ life.op = "computeSaveBytes"
  /\ life.config.sparse_sample_rate = 2
  /\ life.config.geometry.records_per_chapter = 2
  /\ life.config.geometry.sparse_chapters_per_volume = 1
  /\ life.split.hookConfig.geometry.records_per_chapter = 1
  /\ life.split.nonHookConfig.geometry.records_per_chapter = 1
  /\ life.split.nonHookConfig.geometry.chapters_per_volume
       = MaxChaptersPerVolume - 1

\* C12: a call that splits a configuration leaves the caller's
\* configuration and geometry as they were, whether the split is accepted or
\* rejected, and the two configurations of an accepted split point at the
\* split's own geometries, never at the caller's.
C12_SplitLeavesInput ==
  Splits
    => /\ life.split.config = life.config
       /\ life.split.result = UDS_SUCCESS
            => /\ life.split.hookGeometry = HookGeometry
               /\ life.split.nonHookGeometry = NonHookGeometry
               /\ InputGeometry
                    \notin {life.split.hookGeometry,
                            life.split.nonHookGeometry}

\* An index was made from a configuration whose split differs from it.
C12_Witness ==
  /\ life.op = "make"
  /\ life.state = "live"
  /\ life.split.config = life.config
  /\ life.split.hookConfig.geometry # life.config.geometry
  /\ life.split.nonHookConfig.geometry # life.config.geometry
  /\ life.split.hookGeometry # life.split.nonHookGeometry

(***************************************************************************)
(* A makeMasterIndex006 that fails.                                        *)
(***************************************************************************)
\* How many of the last call's events are `call` with number n.
CountEvents(call, sub, n) ==
  Cardinality({i \in 1 .. Len(life.events) :
                 life.events[i] = Event(call, sub, n)})

\* makeMasterIndex006 failed after it had allocated the composite.
MakeFailedAfterAllocate ==
  /\ life.op = "make"
  /\ life.result # UDS_SUCCESS
  /\ Len(life.events) >= 2

\* C13: when makeMasterIndex006 fails after the composite is allocated,
\* then at its return every zone mutex that was initialized has been
\* destroyed exactly once, the zone table (if allocated) is freed once, a
\* non-hook index that was made is freed exactly once, the composite is
\* freed once, *masterIndex is not written, and nothing the call allocated
\* is live.
C13_FailedMakeReleasesAll ==
  MakeFailedAfterAllocate
    => /\ life.state = "none"
       /\ out = NoOut
       /\ heap.mi6 = "freed"
       /\ heap.zones \in {"none", "freed"}
       /\ \A z \in AllZones :
            /\ heap.mutex[z] \notin {"init", "destroyed_twice"}
            /\ CountEvents("destroyMutex", "", z) <= 1
            /\ heap.mutex[z] = "destroyed"
                 => CountEvents("destroyMutex", "", z) = 1
       /\ CountEvents("FREE masterZones", "", 0)
            = IF heap.zones = "freed" THEN 1 ELSE 0
       /\ \A s \in SubIndexes :
            /\ heap.sub[s] \in {"none", "freed"}
            /\ CountEvents("freeMasterIndex", s, 0)
                 = IF heap.sub[s] = "freed" THEN 1 ELSE 0
       /\ CountEvents("FREE mi6", "", 0) = 1

\* The hook index could not be made: the non-hook index and the mutexes
\* made before it were released.
C13_Witness ==
  /\ MakeFailedAfterAllocate
  /\ life.result = SUB_ERROR
  /\ heap.sub[miNonHook] = "freed"
  /\ heap.sub[miHook] = "none"
  /\ heap.mutex[0] = "destroyed"
  /\ heap.mutex[MaxZones - 1] = "destroyed"

(***************************************************************************)
(* Claims about saving and restoring, checked under SpecPersist.           *)
(***************************************************************************)
\* The last call was a restore; io.args.readers are the readers it got.
Restored == life.op = "startRestoring"

\* The sample rate the four rate bytes of a reader's header stand for.
RateOf(reader) ==
  reader.rateBytes[1] + 256 * reader.rateBytes[2]
    + 65536 * reader.rateBytes[3] + 16777216 * reader.rateBytes[4]

\* Readers 1 .. i all supply a header.
Supplied(readers, i) == \A j \in 1 .. i : readers[j].status = "ok"

\* Some reader's header has a sample rate that is not the first reader's.
RateMismatch(readers) ==
  \E i \in 2 .. Len(readers) :
    Supplied(readers, i) /\ RateOf(readers[i]) # RateOf(readers[1])

\* Every reader supplies a header with the format magic and the first
\* reader's sample rate.
AllHeadersValid(readers) ==
  \A i \in 1 .. Len(readers) :
    /\ readers[i].status = "ok"
    /\ readers[i].magic = MAGIC_MI_START
    /\ RateOf(readers[i]) = RateOf(readers[1])

SubRestoreEvent(sub) ==
  Event("startRestoringMasterIndex", sub, Len(io.args.readers))

NoSubRestore ==
  \A k \in 1 .. Len(life.events) :
    life.events[k].call # "startRestoringMasterIndex"

\* C14: a restore starts a sub-index restore only after the header of every
\* reader has been validated.  When a reader's header has a sample rate
\* that differs from the first reader's, the restore returns
\* UDS_CORRUPT_COMPONENT and has started no sub-index restore.  A sub-index
\* restore is started only when every header is valid, after one header
\* event per reader; the non-hook (dense) one is started first and the hook
\* (sparse) one only after it, both with all the readers; a restore that
\* succeeds has started both, in that order.
C14_HeadersBeforeSubIndexes ==
  Restored =>
    LET readers == io.args.readers
        n == Len(readers)
        events == life.events
    IN /\ RateMismatch(readers) =>
            life.result = UDS_CORRUPT_COMPONENT /\ NoSubRestore
       /\ ~NoSubRestore =>
            /\ AllHeadersValid(readers)
            /\ Len(events) \in {n + 1, n + 2}
            /\ \A k \in 1 .. n : events[k].call = "header"
            /\ events[n + 1] = SubRestoreEvent(miNonHook)
            /\ Len(events) = n + 2 => events[n + 2] = SubRestoreEvent(miHook)
       /\ life.result = UDS_SUCCESS =>
            /\ Len(events) = n + 2
            /\ events[n + 1] = SubRestoreEvent(miNonHook)
            /\ events[n + 2] = SubRestoreEvent(miHook)

\* A restore from two readers with good magics whose sample rates differ
\* has failed with the corruption error.
C14_Witness ==
  /\ Restored
  /\ Len(io.args.readers) = 2
  /\ RateMismatch(io.args.readers)
  /\ \A i \in 1 .. 2 : io.args.readers[i].magic = MAGIC_MI_START
  /\ life.result = UDS_CORRUPT_COMPONENT

\* Reader i is the first thing wrong with the readers, and it is its magic:
\* the readers up to it supply their headers, and one byte at least of
\* reader i's magic is not the format magic's.
BadMagicAt(readers, i) ==
  /\ Supplied(readers, i)
  /\ \E k \in 1 .. MAGIC_SIZE : readers[i].magic[k] # MAGIC_MI_START[k]

\* C15: when any of the MAGIC_SIZE bytes of the magic of a header read by a
\* restore differs from MAGIC_MI_START, the restore returns
\* UDS_CORRUPT_COMPONENT, has started neither sub-index restore, and has
\* read no reader after that one: it has made at most one step per reader
\* up to it.
C15_BadMagicIsCorruption ==
  Restored =>
    \A i \in 1 .. Len(io.args.readers) :
      BadMagicAt(io.args.readers, i) =>
        /\ life.result = UDS_CORRUPT_COMPONENT
        /\ NoSubRestore
        /\ Len(life.events) <= i

\* A restore from two readers, the first with a magic whose last byte
\* only is wrong, has failed with the corruption error at the first reader.
C15_Witness ==
  /\ Restored
  /\ Len(io.args.readers) = 2
  /\ io.args.readers[1].status = "ok"
  /\ io.args.readers[1].magic # MAGIC_MI_START
  /\ SubSeq(io.args.readers[1].magic, 1, MAGIC_SIZE - 1)
       = SubSeq(MAGIC_MI_START, 1, MAGIC_SIZE - 1)
  /\ io.args.readers[2].status = "ok"
  /\ life.result = UDS_CORRUPT_COMPONENT
  /\ life.events = <<Event("bad magic", "", 0)>>

\* Reader i is the first thing wrong with the readers, and it is a short
\* read: the readers before it supply valid headers, reader i cannot
\* supply sizeof(struct mi006_data) bytes.
ShortReadAt(readers, i) ==
  /\ AllHeadersValid(SubSeq(readers, 1, i - 1))
  /\ readers[i].status = "short"

\* The header write of the stream a save has written to.
HeaderOf(stream) == stream.writes[1].data

SaveStarted == life.op = "startSaving"

\* The positions in the events of the sub-index calls named call.
SubCalls(call, sub) ==
  {k \in 1 .. Len(life.events) :
     life.events[k].call = call /\ life.events[k].sub = sub}

\* C17: startSavingMasterIndex_006 of a zone writes to the zone's buffered
\* writer the 12 bytes of the header (MAGIC_MI_START, then the index's
\* current sample rate, least significant byte first), then has the
\* non-hook (dense) sub-index write its image, then the hook (sparse) one.
\* When the header write fails nothing is written and no sub-index save is
\* started; when starting the non-hook save fails its error is returned and
\* the hook save is not started.
C17_SaveOrder ==
  SaveStarted =>
    LET writes == io.stream[io.args.zoneNumber].writes
        nonHookCalls == SubCalls("startSavingMasterIndex", miNonHook)
        hookCalls == SubCalls("startSavingMasterIndex", miHook)
    IN /\ Len(writes) <= 3
       /\ Len(writes) >= 1 =>
            /\ writes[1].by = "header"
            /\ Len(writes[1].data) = 12
            /\ SubSeq(writes[1].data, 1, 8) = MAGIC_MI_START
            /\ writes[1].data[9] + 256 * writes[1].data[10]
                 + 65536 * writes[1].data[11]
                 + 16777216 * writes[1].data[12] = sparseSampleRate
       /\ Len(writes) >= 2 =>
            writes[2] = [by |-> miNonHook,
                         data |-> <<io.content[miNonHook]>>]
       /\ Len(writes) = 3 =>
            writes[3] = [by |-> miHook, data |-> <<io.content[miHook]>>]
       /\ io.args.header # "written" =>
            /\ writes = <<>>
            /\ nonHookCalls = {} /\ hookCalls = {}
            /\ life.result # UDS_SUCCESS
       /\ (io.args.header = "written"
             /\ io.args.results[1] # UDS_SUCCESS) =>
            /\ Len(writes) = 1
            /\ hookCalls = {}
            /\ life.result = io.args.results[1]
       /\ \A h \in hookCalls : \E d \in nonHookCalls : d < h
       /\ life.result = UDS_SUCCESS =>
            /\ Len(writes) = 3
            /\ Cardinality(nonHookCalls) = 1 /\ Cardinality(hookCalls) = 1

\* A zone has been saved in full from an index whose sample rate a restore
\* had changed from the rate it was made with.
C17_Witness ==
  /\ SaveStarted
  /\ life.result = UDS_SUCCESS
  /\ sparseSampleRate # life.made.rate
  /\ Len(io.stream[io.args.zoneNumber].writes) = 3

\* Every zone of the index has a stream saved in full, all of them from an
\* index with one sample rate and one content.
AllZonesSaved ==
  \A z \in Zones :
    /\ Len(io.stream[z].writes) = 3
    /\ io.stream[z].rate = io.stream[0].rate
    /\ io.stream[z].content = io.stream[0].content

\* The last call was a restore from the saved streams of the zones.
RestoredFromSaved ==
  /\ Restored
  /\ numZones > 0
  /\ io.args.readers = SavedReaders

\* C18: when every zone of an index has been saved and an index of as many
\* zones is restored from those streams, the restore succeeds and leaves
\* the index with the sample rate of the saved index, whatever rate it was
\* made with, so that every name is a sample now iff it was one in the
\* saved index, and each sub-index holds what it held at the save (its
\* records, and with them its memory use and its statistics).
C18_RoundTrip ==
  (RestoredFromSaved /\ AllZonesSaved) =>
    /\ life.result = UDS_SUCCESS
    /\ sparseSampleRate = io.stream[0].rate
    /\ sparseSampleRate > 0 =>
         \A name \in Names :
           isMasterIndexSample_006(name) = SampledAt(name, io.stream[0].rate)
    /\ io.content = io.stream[0].content

\* An index of MaxZones zones made with one sample rate has been restored
\* from the streams of a filled index saved with another.
C18_Witness ==
  /\ RestoredFromSaved
  /\ AllZonesSaved
  /\ numZones = MaxZones
  /\ life.made.rate # io.stream[0].rate
  /\ io.stream[0].rate > 0
  /\ io.stream[0].content = FullContent
  /\ life.result = UDS_SUCCESS

\* C19: finishSavingMasterIndex_006 of a zone finishes the non-hook (dense)
\* sub-index's save of the zone first.  When that fails it returns the
\* non-hook error and has not called finish on the hook (sparse) sub-index;
\* otherwise it finishes the hook sub-index's save of the zone next and
\* returns what that returned.
C19_FinishDenseFirst ==
  life.op = "finishSaving" =>
    LET zone == io.args.zoneNumber
        nonHookResult == io.args.results[1]
        hookResult == io.args.results[2]
        finish(sub) == Event("finishSavingMasterIndex", sub, zone)
    IN IF nonHookResult # UDS_SUCCESS
         THEN /\ life.events = <<finish(miNonHook)>>
              /\ life.result = nonHookResult
       ELSE /\ life.events = <<finish(miNonHook), finish(miHook)>>
            /\ life.result = hookResult

\* A finish whose non-hook sub-index failed, with a hook sub-index that
\* would have failed with another error, has returned the non-hook error.
C19_Witness ==
  /\ life.op = "finishSaving"
  /\ io.args.results = <<SUB_ERROR, ENOMEM>>
  /\ life.result = SUB_ERROR
  /\ Len(life.events) = 1

\* C20: abortSavingMasterIndex_006 of a zone calls abort on the non-hook
\* (dense) sub-index and then on the hook (sparse) sub-index, whatever the
\* first returned, and returns the non-hook result when that is an error,
\* the hook result otherwise.
C20_AbortBoth ==
  life.op = "abortSaving" =>
    LET zone == io.args.zoneNumber
        nonHookResult == io.args.results[1]
        hookResult == io.args.results[2]
        abort(sub) == Event("abortSavingMasterIndex", sub, zone)
    IN /\ life.events = <<abort(miNonHook), abort(miHook)>>
       /\ life.result = IF nonHookResult # UDS_SUCCESS THEN nonHookResult
                        ELSE hookResult

\* An abort both of whose sub-index aborts failed has called both and
\* returned the non-hook error.
C20_Witness ==
  /\ life.op = "abortSaving"
  /\ io.args.results = <<SUB_ERROR, ENOMEM>>
  /\ Len(life.events) = 2
  /\ life.result = SUB_ERROR

(***************************************************************************)
(* The size of a save.                                                     *)
(***************************************************************************)
\* The save size of a sub-index with the given geometry.
SubSaveBytes(geometry) ==
  geometry.records_per_chapter * geometry.chapters_per_volume

\* C29: computeMasterIndexSaveBytes006 of a configuration it accepts asks
\* the sub-index code for the save size of the hook configuration of the
\* split and then for that of the non-hook configuration.  When both
\* answer, it returns UDS_SUCCESS and writes to *numBytes the 12 bytes of
\* the header plus the two sizes, each the size of the split's own
\* geometry; when one fails it returns that error, asks nothing more and
\* leaves *numBytes unwritten.
C29_SaveBytesIsSum ==
  (life.op = "computeSaveBytes" /\ ~InvalidConfig(life.config)) =>
    LET hookBytes == SubSaveBytes(life.split.hookConfig.geometry)
        nonHookBytes == SubSaveBytes(life.split.nonHookConfig.geometry)
        size(sub, n) == Event("compute_master_index_save_bytes005", sub, n)
    IN IF life.result = UDS_SUCCESS
         THEN /\ out.numBytes = 12 + hookBytes + nonHookBytes
              /\ life.events = <<size(miHook, hookBytes),
                                 size(miNonHook, nonHookBytes)>>
       ELSE /\ out.numBytes = NoBytes
            /\ life.result = SUB_ERROR
            /\ \/ life.events = <<size(miHook, 0)>>
               \/ life.events = <<size(miHook, hookBytes),
                                  size(miNonHook, 0)>>

\* A size has been computed from two sub-index sizes that differ: 2 records
\* at rate 2 in 2 chapters, 1 of them sparse.
C29_Witness ==
  /\ life.op = "computeSaveBytes"
  /\ life.result = UDS_SUCCESS
  /\ SubSaveBytes(life.split.hookConfig.geometry) = 2
  /\ SubSaveBytes(life.split.nonHookConfig.geometry) = 1
  /\ out.numBytes = 15

(***************************************************************************)
(* Freeing and making the index.                                           *)
(***************************************************************************)
\* The events a free of an index of n zones is to make.
RECURSIVE MutexCalls(_, _, _)
MutexCalls(call, z, n) ==
  IF z >= n THEN <<>>
  ELSE <<[call |-> call, sub |-> "", n |-> z]>> \o MutexCalls(call, z + 1, n)

FreeOrder(n) ==
  MutexCalls("destroyMutex", 0, n)
  \o <<[call |-> "FREE masterZones", sub |-> "", n |-> 0],
       [call |-> "freeMasterIndex", sub |-> miNonHook, n |-> 0],
       [call |-> "freeMasterIndex", sub |-> miHook, n |-> 0],
       [call |-> "FREE mi6", sub |-> "", n |-> 0]>>

\* C26: freeMasterIndex of a live index of n zones destroys the mutex of
\* each zone 0 .. n-1 once and frees the zone table, then frees the
\* non-hook (dense) sub-index, then the hook (sparse) sub-index, then the
\* composite; afterwards each of these is freed, each mutex destroyed once.
\* freeMasterIndex of a null index calls nothing and changes nothing.
C26_FreeOrder ==
  /\ [](life.op = "free" =>
          \E n \in 1 .. MaxZones :
            /\ life.events = FreeOrder(n)
            /\ heap = [mi6 |-> "freed", zones |-> "freed",
                       mutex |-> [z \in AllZones |->
                                    IF z < n THEN "destroyed" ELSE "none"],
                       sub |-> [s \in SubIndexes |-> "freed"]])
  /\ [][life'.op = "free NULL" =>
          /\ life'.events = <<>>
          /\ heap' = heap
          /\ hookMutex' = hookMutex]_vars

\* A live index of MaxZones zones has been freed, and a null index after
\* it.
C26_Witness ==
  /\ life.op = "free NULL"
  /\ heap.mi6 = "freed"
  /\ \A z \in AllZones : heap.mutex[z] = "destroyed"

\* The last call made an index.
Made == life.op = "make" /\ life.result = UDS_SUCCESS

\* C27: a makeMasterIndex006 that succeeds, for n zones, has initialized
\* the mutexes of the zones 0 .. n-1, each once, before making a sub-index;
\* then made the non-hook (dense) sub-index from the non-hook configuration
\* of the split and tagged it 'd'; then made the hook (sparse) sub-index
\* from the hook configuration and tagged it 's'.  Both were made for n
\* zones and with the volume nonce the call was given.
C27_MakeOrder ==
  Made =>
    LET n == numZones
        events == life.events
    IN /\ Len(events) = n + 6
       /\ SubSeq(events, 1, n + 2)
            = <<[call |-> "ALLOCATE mi6", sub |-> "", n |-> 0],
                [call |-> "ALLOCATE masterZones", sub |-> "", n |-> 0]>>
              \o MutexCalls("initMutex", 0, n)
       /\ \A z \in AllZones :
            heap.mutex[z] = IF z < n THEN "init" ELSE "none"
       /\ events[n + 3]
            = [call |-> "make_master_index005", sub |-> miNonHook, n |-> n,
               config |-> life.split.nonHookConfig,
               volumeNonce |-> "volumeNonce"]
       /\ events[n + 4].sub = miNonHook
       /\ events[n + 4].call = "setMasterIndexTag d"
       /\ events[n + 5]
            = [call |-> "make_master_index005", sub |-> miHook, n |-> n,
               config |-> life.split.hookConfig,
               volumeNonce |-> "volumeNonce"]
       /\ events[n + 6].sub = miHook
       /\ events[n + 6].call = "setMasterIndexTag s"
       /\ events[n + 4].call # events[n + 6].call

\* An index of MaxZones zones has been made from a configuration whose
\* split gives the two sub-indices different configurations.
C27_Witness ==
  /\ Made
  /\ numZones = MaxZones
  /\ life.split.hookConfig # life.split.nonHookConfig

\* C24: the dense (non-hook) sub-index is never called under a zone mutex:
\* whenever a thread is inside the non-hook index call of
\* setMasterIndexZoneOpenChapter_006 (line 474) or of
\* getMasterIndexRecord_006 (line 628), that thread holds no hookMutex.
C24_DenseNeverLocked ==
  \A t \in Threads :
    pc[t] \in {"sz_dense", "gr_dense"} => HoldsNoMutex(t)

\* A thread is inside getMasterIndexRecord_006's non-hook index call after
\* an earlier getMasterIndexRecord_006 of its own locked and released a zone
\* mutex, while another thread holds a zone mutex.
C24_Witness ==
  \E t \in Threads :
    /\ pc[t] = "gr_dense"
    /\ record[t].mutex # NoMutex
    /\ \E z \in Zones : hookMutex[z] \notin {NoThread, t}

\* C21: isSavingMasterIndexDone_006 answers true exactly when both
\* sub-indices report the zone's save done, and
\* isRestoringMasterIndexDone_006 exactly when both report the restore
\* done; the non-hook index is asked first and the hook index is asked only
\* after the non-hook index said done.
C21_DoneIffBothDone ==
  life.op \in {"isSavingDone", "isRestoringDone"} =>
    LET call == IF life.op = "isSavingDone" THEN "isSavingMasterIndexDone"
                ELSE "isRestoringMasterIndexDone"
        n == IF life.op = "isSavingDone" THEN io.args.zoneNumber ELSE 0
        asked == [k \in 1 .. Len(life.events) |-> life.events[k].sub]
    IN /\ io.args.reply.done = (io.args.reports[1] /\ io.args.reports[2])
       /\ \A k \in 1 .. Len(life.events) :
            life.events[k].call = call /\ life.events[k].n = n
       /\ asked = IF io.args.reports[1] THEN <<miNonHook, miHook>>
                  ELSE <<miNonHook>>

\* isSavingMasterIndexDone_006 answered false for the last zone of an index
\* whose non-hook index had finished that zone and whose hook index had
\* not.
C21_Witness ==
  /\ life.op = "isSavingDone"
  /\ io.args.zoneNumber = MaxZones - 1
  /\ io.args.reports = <<TRUE, FALSE>>
  /\ ~io.args.reply.done

\* The sub-indices a call's events show it called, in order.
Offered == [k \in 1 .. Len(life.events) |-> life.events[k].sub]

\* The sub-indices that accepted the delta list of the last
\* restoreDeltaListToMasterIndex_006: those it was offered to and whose
\* call returned success.
Accepted ==
  {Offered[k] : k \in {j \in 1 .. Len(Offered) :
                         io.args.results[j] = UDS_SUCCESS}}

\* C22: restoreDeltaListToMasterIndex_006 offers the delta list to the
\* non-hook (dense) index first, and to the hook (sparse) index if and only
\* if the dense index rejected it; at most one sub-index accepts the list,
\* and the call succeeds if and only if one did.
C22_DenseFirstThenSparse ==
  life.op = "restoreDeltaList" =>
    /\ Offered = IF io.args.results[1] = UDS_SUCCESS THEN <<miNonHook>>
                 ELSE <<miNonHook, miHook>>
    /\ \A k \in 1 .. Len(life.events) :
         /\ life.events[k].call = "restoreDeltaListToMasterIndex"
         /\ life.events[k].n = io.args.zoneNumber
    /\ Cardinality(Accepted) <= 1
    /\ (life.result = UDS_SUCCESS) = (Accepted # {})

\* The dense index rejected the last delta list of the index, the sparse
\* index took it, and the call succeeded.
C22_Witness ==
  /\ life.op = "restoreDeltaList"
  /\ io.args.zoneNumber = NumDeltaLists(miNonHook) - 1
  /\ io.args.results[1] # UDS_SUCCESS
  /\ Accepted = {miHook}
  /\ life.result = UDS_SUCCESS

DelegatingOps ==
  {"startSaving", "finishSaving", "abortSaving", "startRestoring",
   "restoreDeltaList"}

\* What the sub-index calls of the last such call returned, in the order
\* the calls were made.
SubReturns ==
  LET calls == SelectSeq(life.events, LAMBDA e : e.sub \in SubIndexes)
  IN [k \in 1 .. Len(calls) |->
        IF calls[k].sub = miNonHook THEN io.args.results[1]
        ELSE io.args.results[2]]

\* The sub-index calls that returned an error.
SubErrors == {k \in 1 .. Len(SubReturns) : SubReturns[k] # UDS_SUCCESS}

\* A thread's lookupMasterIndexName_006 or getMasterIndexRecord_006 has
\* returned.
LookupReturned(t) ==
  pc[t] = "idle" /\ loc[t].op \in {"lookupName", "getRecord"}

\* C28 as stated: every error code a sub-index call returns is the code the
\* facade returns, for getRecord, lookupTriage, startSaving, finishSaving,
\* abortSaving, startRestoring and restoreDeltaList and for every
\* combination of the two sub-indices' outcomes.
C28_Original ==
  /\ life.op \in DelegatingOps =>
       \A k \in SubErrors : life.result = SubReturns[k]
  /\ \A t \in Threads :
       LookupReturned(t) =>
         \A k \in 1 .. Len(loc[t].returned) :
           loc[t].returned[k] # UDS_SUCCESS =>
             loc[t].result = loc[t].returned[k]

\* C28 (as amended): the facade never reinterprets a code.  When it has
\* called a sub-index, what it returns is the code one of its sub-index
\* calls returned: for getRecord and lookupTriage that of the one call; for
\* startSaving, finishSaving and startRestoring the error of the call that
\* failed (no call is made after it), success when none did; for
\* restoreDeltaList that of the last call made, so that the dense index's
\* error is dropped when the sparse index is tried; for abortSaving the
\* dense index's error when it failed, whatever the sparse index returned,
\* and the sparse index's result otherwise.
C28_ErrorsNotReinterpreted ==
  /\ (life.op \in DelegatingOps /\ SubReturns # <<>>) =>
       LET last == SubReturns[Len(SubReturns)]
       IN /\ \E k \in 1 .. Len(SubReturns) : life.result = SubReturns[k]
          /\ life.op \in {"startSaving", "finishSaving", "startRestoring"} =>
               /\ SubErrors \subseteq {Len(SubReturns)}
               /\ life.result = last
          /\ life.op = "restoreDeltaList" => life.result = last
          /\ life.op = "abortSaving" =>
               life.result = IF SubReturns[1] # UDS_SUCCESS
                               THEN SubReturns[1] ELSE last
  /\ \A t \in Threads :
       LookupReturned(t) =>
         IF loc[t].returned = <<>> THEN loc[t].result = UDS_SUCCESS
         ELSE /\ Len(loc[t].returned) = 1
              /\ loc[t].result = loc[t].returned[1]

\* A restoreDeltaListToMasterIndex_006 both of whose sub-indices rejected
\* the list has returned the sparse index's error, not the dense index's.
C28_Witness ==
  /\ life.op = "restoreDeltaList"
  /\ SubReturns = <<SUB_ERROR, ENOMEM>>
  /\ life.result = ENOMEM

(***************************************************************************)
(* The open chapter of the whole index.                                    *)
(***************************************************************************)
\* The sub-index and zone of the k-th open chapter setting of a
\* setMasterIndexOpenChapter_006: zone by zone, non-hook before hook.
OpenChapterOrder(n) ==
  [k \in 1 .. 2 * n |->
     <<IF k % 2 = 1 THEN miNonHook ELSE miHook, (k - 1) \div 2>>]

IsPrefix(p, q) == Len(p) <= Len(q) /\ p = SubSeq(q, 1, Len(p))

\* C23: setMasterIndexOpenChapter_006(v) makes the per-zone call for the
\* zones 0 .. numZones-1 in ascending order, once each, the non-hook
\* (dense) index of a zone before its hook (sparse) index; the thread never
\* holds more than one zone mutex during it and holds none when it returns;
\* and when it returns every zone of both sub-indices has open chapter v.
C23_SetOpenChapterAllZones ==
  \A t \in Threads :
    loc[t].op = "setOpenChapter" =>
      /\ IsPrefix(loc[t].visited, OpenChapterOrder(numZones))
      /\ Cardinality({z \in AllZones : hookMutex[z] = t}) <= 1
      /\ pc[t] = "idle" =>
           /\ loc[t].visited = OpenChapterOrder(numZones)
           /\ loc[t].locks = numZones
           /\ HoldsNoMutex(t)
           /\ \A sub \in SubIndexes, z \in Zones :
                openChapter[sub][z] = loc[t].virtualChapter

\* A setMasterIndexOpenChapter_006 to the last chapter has returned on an
\* index of MaxZones zones while another thread is inside a sampled-name
\* lookup in the hook index.
C23_Witness ==
  \E t \in Threads :
    /\ Returned(t, "setOpenChapter")
    /\ numZones = MaxZones
    /\ loc[t].virtualChapter = MaxChapter
    /\ \E u \in Threads \ {t} : pc[u] = "tr_lookup"

(***************************************************************************)
(* The sample rate of a restored index.                                    *)
(***************************************************************************)
\* C31: in every state after a successful makeMasterIndex006, whatever
\* calls followed, startRestoringMasterIndex_006 from readers with
\* well-formed headers among them, the index's sample rate is not zero, and
\* no call of isMasterIndexSample_006 has taken a remainder modulo zero.
C31_SampleRateNeverZero ==
  /\ life.state = "live" => sparseSampleRate # 0
  /\ life.state # "crashed"

(***************************************************************************)
(* The zone mutexes of an index that could not be made.                    *)
(***************************************************************************)
\* C32: destroyMutex is applied only to zone mutexes that initMutex
\* initialized: on no path through makeMasterIndex006 and
\* freeMasterIndex_006, the one where initMutex fails for a zone included,
\* is the mutex of a zone destroyed whose initMutex failed or was skipped.
C32_DestroyOnlyInitialized ==
  \A z \in AllZones : heap.mutex[z] # "destroyed_uninit"

(***************************************************************************)
(* The mutex of a sampled name.                                            *)
(***************************************************************************)
\* Thread t is in, or has returned from, a call of op on a sampled name and
\* has got to the mutex it locks.
AtMutex(t, op) ==
  /\ loc[t].op = op
  /\ loc[t].triage.isSample
  /\ loc[t].mutex # NoMutex

SubCallsMade == SelectSeq(life.events, LAMBDA e : e.sub \in SubIndexes)

\* The sub-indices the last startSavingMasterIndex_006 or
\* startRestoringMasterIndex_006 left with a save or a restore started:
\* those whose start returned success and on which the call made no abort
\* afterwards.
LeftStarted ==
  {SubCallsMade[k].sub :
     k \in {j \in 1 .. Len(SubCallsMade) :
              /\ SubCallsMade[j].call \in {"startSavingMasterIndex",
                                          "startRestoringMasterIndex"}
              /\ SubReturns[j] = UDS_SUCCESS
              /\ ~\E i \in (j + 1) .. Len(SubCallsMade) :
                    /\ SubCallsMade[i].sub = SubCallsMade[j].sub
                    /\ SubCallsMade[i].call \in {"abortSavingMasterIndex",
                                                "abortRestoringMasterIndex"}}}

\* C34: startSavingMasterIndex_006 and startRestoringMasterIndex_006 are
\* all or nothing: when either returns an error, no sub-index is left with
\* a save of the zone or a restore started and not aborted, also when the
\* non-hook (dense) index started and the hook (sparse) index then failed.
C34_StartAllOrNothing ==
  (life.op \in {"startSaving", "startRestoring"}
     /\ life.result # UDS_SUCCESS) => LeftStarted = {}

(***************************************************************************)
(* The arithmetic of the split.                                            *)
(***************************************************************************)
\* C35: for every configuration splitConfiguration006 accepts, the derived
\* geometries are free of unsigned wrap-around: the non-hook index has no
\* more chapters than the volume, the hook index no more records per
\* chapter than the chapter, and the records of the two add up to the
\* chapter's; also with more sparse chapters than chapters, and with a
\* sample rate above the records of a chapter.
C35_SplitWithoutWrapAround ==
  (life.op = "split" /\ life.split.result = UDS_SUCCESS) =>
    LET global == life.config.geometry
        hook == life.split.hookConfig.geometry
        nonHook == life.split.nonHookConfig.geometry
    IN /\ UnsignedLeq(nonHook.chapters_per_volume,
                      global.chapters_per_volume)
       /\ UnsignedLeq(hook.records_per_chapter, global.records_per_chapter)
       /\ hook.records_per_chapter + nonHook.records_per_chapter
            = global.records_per_chapter

(***************************************************************************)
(* The handlers of a metadata vio.                                         *)
(***************************************************************************)
\* The place of the first entry of vio.events that ran the function.
EventOf(run) ==
  CHOOSE i \in 1 .. Len(vio.events) :
    /\ vio.events[i].run = run
    /\ \A j \in 1 .. (i - 1) : vio.events[j].run # run

Ran(run) == \E i \in 1 .. Len(vio.events) : vio.events[i].run = run

LatestLaunch == vio.launched[Len(vio.launched)]

\* C36: when the I/O of a vio launched with launch_metadata_vio(callback,
\* error_handler) is done, the completion first runs vio_done_callback (on
\* success) or handle_metadata_io_error (on an error), which updates the
\* error statistics before anything else; either way the callback and the
\* error handler of that launch are on the completion before it is
\* completed, and the one function of the callers' that is run is a handler
\* of the latest launch, never one that only an earlier launch was given.
C36_HandlersOfLatestLaunch ==
  vio.events # <<>> =>
    LET failed == vio.completion.result # VDO_SUCCESS
        last == vio.events[Len(vio.events)]
    IN /\ vio.events[1].run = IF failed
                                THEN handle_metadata_io_error_action
                                ELSE vio_done_callback_action
       /\ failed =>
            /\ vio.events[2].run = <<"update_vio_error_stats", 0>>
            /\ vio.events[3].run = vio_done_callback_action
            /\ vio.events[3].error_stats = vio.error_stats
       /\ Ran(<<"complete_completion", 0>>)
       /\ LET completing == vio.events[EventOf(<<"complete_completion", 0>>)]
          IN /\ completing.callback = LatestLaunch.callback
             /\ completing.error_handler = LatestLaunch.error_handler
       /\ last.run = IF failed /\ LatestLaunch.error_handler # NULL
                       THEN LatestLaunch.error_handler
                       ELSE LatestLaunch.callback
       /\ \A i \in 1 .. Len(vio.events) :
            vio.events[i].run \in CallerActions => i = Len(vio.events)

\* A second launch with other handlers than the first, and its I/O failed.
C36_Witness ==
  /\ Len(vio.launched) = 2
  /\ vio.events # <<>>
  /\ vio.completion.result = VDO_NO_SPACE
  /\ vio.launched[1].callback # vio.launched[2].callback
  /\ vio.launched[1].error_handler # vio.launched[2].error_handler
  /\ vio.launched[2].error_handler # NULL
  /\ vio.events[Len(vio.events)].run = vio.launched[2].error_handler
  /\ vio.error_stats.no_space_error_count = 1

(***************************************************************************)
(* The bio statistics.                                                     *)
(***************************************************************************)
Counters == {"read", "write", "discard", "flush", "empty_flush", "fua"}

\* By how much a step moves a counter.
Counted(counter) == bio_stats'[counter] - bio_stats[counter]

IsEmptyFlush(bio) ==
  REQ_PREFLUSH \in bio.bi_opf.flags /\ bio.bi_iter.bi_size = 0

CountedFor(bio, counter) ==
  IF IsEmptyFlush(bio)
    THEN IF counter \in {"empty_flush", "flush"} THEN 1 ELSE 0
    ELSE CASE counter = "write" ->
                IF bio_op(bio) = REQ_OP_WRITE THEN 1 ELSE 0
           [] counter = "read" ->
                IF bio_op(bio) = REQ_OP_READ THEN 1 ELSE 0
           [] counter = "discard" ->
                IF bio_op(bio) = REQ_OP_DISCARD THEN 1 ELSE 0
           [] counter = "flush" ->
                IF REQ_PREFLUSH \in bio.bi_opf.flags THEN 1 ELSE 0
           [] counter = "fua" ->
                IF REQ_FUA \in bio.bi_opf.flags THEN 1 ELSE 0
           [] OTHER -> 0

\* C37: after any sequence of vdo_count_bios calls on a statistics block,
\* empty_flush <= flush; a call for an empty flush (PREFLUSH and no data)
\* adds one to empty_flush and to flush and to nothing else, and any other
\* call adds one to the one of write, read and discard that is its
\* operation, to flush if and only if PREFLUSH is set, to fua if and only
\* if FUA is set, and to nothing else.
C37_BioCounters ==
  /\ [](bio_stats.empty_flush <= bio_stats.flush)
  /\ [][\A counter \in Counters :
          Counted(counter) = CountedFor(bio_stats'.bio, counter)]_vars

\* An empty flush with FUA set was counted after a write with a flush.
C37_Witness ==
  /\ IsEmptyFlush(bio_stats.bio)
  /\ REQ_FUA \in bio_stats.bio.bi_opf.flags
  /\ bio_stats.empty_flush = 1
  /\ bio_stats.flush = 2
  /\ bio_stats.write = 1
  /\ bio_stats.fua = 0

(***************************************************************************)
(* The allocations of kvdo_create_metadata_vio.                            *)
(***************************************************************************)
CreateFailed(l) ==
  l.call = "kvdo_create_metadata_vio" /\ l.result # VDO_SUCCESS

\* What a call allocated and did not free again.
Kept(l) ==
  {e \in {l.events[i] : i \in 1 .. Len(l.events)} :
     /\ e.call \in {"create_bio", "ALLOCATE metadata_kvio", "ALLOCATE trace"}
     /\ e.result = VDO_SUCCESS
     /\ ~(e.call = "create_bio"
            /\ \E i \in 1 .. Len(l.events) :
                 l.events[i] = LayerEvent("free_bio", e.id, VDO_SUCCESS))}

\* C38: a kvdo_create_metadata_vio that fails leaks nothing: a vio type
\* that is not a metadata type is rejected before anything is allocated;
\* when the bio cannot be created nothing else is allocated; when the kvio
\* cannot be allocated the bio just created is freed; and in every failure
\* the caller's vio pointer is not written and the layer holds the bios,
\* kvios and trace records it held before.
C38_CreateLeakFree ==
  /\ [](CreateFailed(layer) =>
         /\ ~isMetadataVIOType(layer.vio_type) => layer.events = <<>>
         /\ (layer.events # <<>> /\ layer.events[1].result # VDO_SUCCESS) =>
              Len(layer.events) = 1
         /\ (Len(layer.events) > 1) =>
              /\ layer.events[1].call = "create_bio"
              /\ layer.events[2].call = "ALLOCATE metadata_kvio"
              /\ layer.events[2].result # VDO_SUCCESS
              /\ layer.events[3] =
                   LayerEvent("free_bio", layer.events[1].id, VDO_SUCCESS)
              /\ Len(layer.events) = 3
         /\ Kept(layer) = {})
  /\ [][CreateFailed(layer') =>
          /\ layer'.vio_ptr = layer.vio_ptr
          /\ layer'.bios = layer.bios
          /\ layer'.kvios = layer.kvios
          /\ layer'.traces = layer.traces]_vars

\* The kvio of a second vio could not be allocated, while the caller holds
\* a first vio.
C38_Witness ==
  /\ CreateFailed(layer)
  /\ layer.made = 1
  /\ layer.vio_ptr = <<1, Unassigned>>
  /\ Len(layer.events) = 3
  /\ layer.events[1] = LayerEvent("create_bio", 2, VDO_SUCCESS)
  /\ layer.events[3] = LayerEvent("free_bio", 2, VDO_SUCCESS)
  /\ layer.bios = {1}

====
